---- MODULE Spec2Model ----
(***************************************************************************)
(* A model of the hierarchical chunker of dfir_assistant                   *)
(* (src/src/dfir_assistant/ingestion/chunker.py).                          *)
(*                                                                         *)
(* A Python str is a sequence of one-character strings.  Offsets are       *)
(* 0-based, as in Python; SubSeq is used only inside the helpers.          *)
(* Optional values are None (the empty tuple) or Some(x) (a 1-tuple).      *)
(* A call that never returns (an endless loop) is a result whose field     *)
(* div is TRUE.                                                            *)
(***************************************************************************)
EXTENDS Integers, Sequences, FiniteSets, TLC

\* ------------------------------------------------------------------------
\* Python str primitives
\* ------------------------------------------------------------------------

Min(a, b) == IF a <= b THEN a ELSE b

Max(a, b) == IF a >= b THEN a ELSE b

None == << >>

Some(x) == << x >>

\* Characters str.strip() and the regex class \s remove or match.
Whitespace == {" ", "\t", "\n", "\r", "\f"}

\* A slice bound as Python normalises it for a str of length n.
PyIdx(i, n) == IF i < 0 THEN Max(i + n, 0) ELSE Min(i, n)

\* s[a:b]
Slice(s, a, b) ==
    LET lo == PyIdx(a, Len(s))
        hi == PyIdx(b, Len(s))
    IN  IF hi <= lo THEN << >> ELSE SubSeq(s, lo + 1, hi)

\* s[i:i+len(sub)] == sub, for an offset i >= 0
StartsAt(s, i, sub) ==
    /\ i >= 0
    /\ i + Len(sub) <= Len(s)
    /\ \A k \in 1..Len(sub) : s[i + k] = sub[k]

\* s.find(sub, from): the lowest offset >= from where sub occurs, or -1
RECURSIVE Find(_, _, _)
Find(s, sub, from) ==
    IF from + Len(sub) > Len(s) THEN -1
    ELSE IF StartsAt(s, from, sub) THEN from
    ELSE Find(s, sub, from + 1)

\* sub in s
Contains(s, sub) == Find(s, sub, 0) # -1

\* s.rfind(ch, start, end) for a one-character ch: the highest offset in
\* the slice [start:end] that holds ch, or -1
RFind(s, ch, start, end) ==
    LET lo == PyIdx(start, Len(s))
        hi == PyIdx(end, Len(s))
        hits == {i \in lo..(hi - 1) : s[i + 1] = ch}
    IN  IF hits = {} THEN -1 ELSE CHOOSE i \in hits : \A j \in hits : j <= i

\* s.split(sep) for a non-empty sep
RECURSIVE SplitOn(_, _)
SplitOn(s, sep) ==
    LET p == Find(s, sep, 0)
    IN  IF p = -1 THEN << s >>
        ELSE << SubSeq(s, 1, p) >> \o SplitOn(SubSeq(s, p + Len(sep) + 1, Len(s)), sep)

\* s.replace(old, new, 1)
ReplaceFirst(s, old, new) ==
    LET p == Find(s, old, 0)
    IN  IF p = -1 THEN s
        ELSE SubSeq(s, 1, p) \o new \o SubSeq(s, p + Len(old) + 1, Len(s))

\* s.replace(old, new)
RECURSIVE ReplaceAll(_, _, _)
ReplaceAll(s, old, new) ==
    LET p == Find(s, old, 0)
    IN  IF p = -1 THEN s
        ELSE SubSeq(s, 1, p) \o new
             \o ReplaceAll(SubSeq(s, p + Len(old) + 1, Len(s)), old, new)

\* s.count(sub): non-overlapping occurrences
RECURSIVE Count(_, _)
Count(s, sub) ==
    LET p == Find(s, sub, 0)
    IN  IF p = -1 THEN 0
        ELSE 1 + Count(SubSeq(s, p + Len(sub) + 1, Len(s)), sub)

\* s.strip()
RECURSIVE LStrip(_)
LStrip(s) ==
    IF s # << >> /\ Head(s) \in Whitespace THEN LStrip(Tail(s)) ELSE s

RECURSIVE RStrip(_)
RStrip(s) ==
    IF s # << >> /\ s[Len(s)] \in Whitespace
    THEN RStrip(SubSeq(s, 1, Len(s) - 1)) ELSE s

Strip(s) == RStrip(LStrip(s))

\* The concatenation of a sequence of strings
RECURSIVE Concat(_)
Concat(ss) == IF ss = << >> THEN << >> ELSE Head(ss) \o Concat(Tail(ss))

\* str(i) for 0 <= i
Digit(d) == << "0", "1", "2", "3", "4", "5", "6", "7", "8", "9" >>[d + 1]

RECURSIVE IntToStr(_)
IntToStr(i) ==
    IF i < 10 THEN << Digit(i) >> ELSE Append(IntToStr(i \div 10), Digit(i % 10))

\* The backquote character.  A TLA+ string literal cannot hold a backquote,
\* so the apostrophe stands for it throughout; no modelled text holds an
\* apostrophe of its own.
BQ == "'"

\* The code-fence marker, three backquotes
FENCE == << BQ, BQ, BQ >>

\* ------------------------------------------------------------------------
\* Python floats
\* ------------------------------------------------------------------------

\* A float is a non-negative IEEE-754 double that is a whole number of units
\* of 2^-56, as every double from 1/8 to 2^16 is: the number of units is
\* written as three digits in base 2^24, lowest first.
FLOAT_BASE == 16777216

\* The digits with their carries (or borrows) taken up
float_digits(d0, d1, d2) ==
    LET e1 == d1 + d0 \div FLOAT_BASE
    IN  << d0 % FLOAT_BASE, e1 % FLOAT_BASE, d2 + e1 \div FLOAT_BASE >>

RECURSIVE BitLength(_)
BitLength(n) == IF n = 0 THEN 0 ELSE 1 + BitLength(n \div 2)

RECURSIVE Pow2(_)
Pow2(k) == IF k = 0 THEN 1 ELSE 2 * Pow2(k - 1)

\* The number of bits of the units of a float
float_bits(v) ==
    IF v[3] > 0 THEN 48 + BitLength(v[3])
    ELSE IF v[2] > 0 THEN 24 + BitLength(v[2])
    ELSE BitLength(v[1])

\* The double nearest to an exact number of units, ties to even: the units
\* keep their 53 highest bits; inexact says that the exact number lies above
\* the whole units given.
round_double(v, inexact) ==
    LET d == float_bits(v) - 53
    IN  IF d <= 0 THEN v
        ELSE LET unit == Pow2(d)
                 r == v[1] % unit
                 odd == (v[1] \div unit) % 2 = 1
                 up == r > unit \div 2 \/ (r = unit \div 2 /\ (inexact \/ odd))
             IN  float_digits(v[1] - r + (IF up THEN unit ELSE 0), v[2], v[3])

\* a >= b
float_ge(a, b) ==
    \/ a[3] > b[3]
    \/ a[3] = b[3] /\ a[2] > b[2]
    \/ a[3] = b[3] /\ a[2] = b[2] /\ a[1] >= b[1]

\* a + b
float_add(a, b) ==
    round_double(float_digits(a[1] + b[1], a[2] + b[2], a[3] + b[3]), FALSE)

\* a - b, for a >= b
float_sub(a, b) ==
    round_double(float_digits(a[1] - b[1], a[2] - b[2], a[3] - b[3]), FALSE)

\* a / n for an int n from 1 to 127
float_div(a, n) ==
    LET t1 == (a[3] % n) * FLOAT_BASE + a[2]
        t0 == (t1 % n) * FLOAT_BASE + a[1]
    IN  round_double(<< t0 \div n, t1 \div n, a[3] \div n >>, t0 % n # 0)

\* max(a, b)
float_max(a, b) == IF float_ge(a, b) THEN a ELSE b

\* round(a, 3) for a <= 1.0, in thousandths: the whole number nearest to
\* a * 1000 = units * 125 / 2^53, ties to even
round3(a) ==
    LET w == float_digits(a[1] * 125, a[2] * 125, a[3] * 125)
        q == w[3] \div 32
        r == w[3] % 32
        low == w[1] # 0 \/ w[2] # 0
        up == r > 16 \/ (r = 16 /\ (low \/ q % 2 = 1))
    IN  IF up THEN q + 1 ELSE q

\* The float literals 0.0, 0.1, 0.2, 0.3, 0.9 and 1.0
FLOAT_0_0 == << 0, 0, 0 >>

FLOAT_0_1 == << 10066330, 10066329, 25 >>

FLOAT_0_2 == << 3355444, 3355443, 51 >>

FLOAT_0_3 == << 13421772, 13421772, 76 >>

FLOAT_0_9 == << 6710888, 6710886, 230 >>

FLOAT_1_0 == << 0, 0, 256 >>

\* ------------------------------------------------------------------------
\* ChunkingConfig
\* ------------------------------------------------------------------------

CharsPerToken == 4

chunk_size_chars(cfg) == cfg.chunk_size * CharsPerToken

chunk_overlap_chars(cfg) == cfg.chunk_overlap * CharsPerToken

min_chunk_size_chars(cfg) == cfg.min_chunk_size * CharsPerToken

\* ------------------------------------------------------------------------
\* HierarchicalChunker: the splitters
\* ------------------------------------------------------------------------

SEPARATORS ==
    << << "\n", "#", "#", " " >>,
       << "\n", "#", "#", "#", " " >>,
       << "\n", "#", "#", "#", "#", " " >>,
       << "\n" >> \o FENCE,
       << "\n", "\n" >>,
       << "\n" >>,
       << " " >> >>

Returned(segs) == [div |-> FALSE, segs |-> segs]

Diverged == [div |-> TRUE, segs |-> << >>]

\* A piece that is never cut: it runs to the end of the text
force_end_uncut(text, chunk_size, start) == Len(text)

\* The end of the piece that starts at start: exactly chunk_size further,
\* moved back to the last space when the cut is not at the end of the text
\* and that space lies strictly after start.
force_end(text, chunk_size, start) ==
    LET end == Min(start + chunk_size, Len(text))
        last_space == RFind(text, " ", start, end)
    IN  IF end < Len(text) /\ last_space > start THEN last_space ELSE end

force_next_start(end, overlap) == IF overlap > 0 THEN end - overlap ELSE end

\* The while loop of _force_split.  The next cursor depends on the cursor
\* alone, so a cursor value seen before means the loop never exits.
RECURSIVE force_loop(_, _, _, _, _, _)
force_loop(text, chunk_size, overlap, start, seen, chunks) ==
    IF ~(start < Len(text)) THEN Returned(chunks)
    ELSE IF start \in seen THEN Diverged
    ELSE LET end == force_end(text, chunk_size, start)
         IN  force_loop(text, chunk_size, overlap,
                        force_next_start(end, overlap),
                        seen \cup {start},
                        Append(chunks, Slice(text, start, end)))

force_split(text, chunk_size, overlap) ==
    force_loop(text, chunk_size, overlap, 0, {}, << >>)

RECURSIVE recursive_split(_, _, _, _)
RECURSIVE merge_splits(_, _, _, _, _, _, _, _)

\* close_chunk without the recursion into the remaining separators: a
\* segment over budget is appended as it is.
close_chunk_unsplit(chunks, current_chunk, chunk_size, overlap, remaining) ==
    IF current_chunk = << >> THEN Returned(chunks)
    ELSE Returned(Append(chunks, current_chunk))

\* Closing the segment in progress: nothing when it is empty, a recursion
\* into the remaining separators when it is over budget, else an append.
close_chunk(chunks, current_chunk, chunk_size, overlap, remaining) ==
    IF current_chunk = << >> THEN Returned(chunks)
    ELSE IF Len(current_chunk) > chunk_size
    THEN LET r == recursive_split(current_chunk, chunk_size, overlap, remaining)
         IN  IF r.div THEN Diverged ELSE Returned(chunks \o r.segs)
    ELSE Returned(Append(chunks, current_chunk))

\* A seed that leaves the overflowing piece out
seed_chunk_dropping(chunks, split, overlap) == << >>

\* The seed of the segment that follows chunks: the overflowing piece,
\* prefixed with the tail of the last finished segment.
seed_chunk(chunks, split, overlap) ==
    IF chunks # << >> /\ overlap > 0
    THEN LET prev_chunk == chunks[Len(chunks)]
             overlap_text == IF Len(prev_chunk) > overlap
                             THEN Slice(prev_chunk, -overlap, Len(prev_chunk))
                             ELSE prev_chunk
         IN  overlap_text \o split
    ELSE split

\* The for loop of _recursive_split from piece i on (1-based).
merge_splits(splits, i, separator, chunk_size, overlap, remaining, chunks, current_chunk) ==
    IF i > Len(splits)
    THEN close_chunk(chunks, current_chunk, chunk_size, overlap, remaining)
    ELSE LET split == IF i > 1 THEN separator \o splits[i] ELSE splits[i]
         IN  IF Len(current_chunk) + Len(split) <= chunk_size
             THEN merge_splits(splits, i + 1, separator, chunk_size, overlap,
                               remaining, chunks, current_chunk \o split)
             ELSE LET closed == close_chunk(chunks, current_chunk, chunk_size,
                                            overlap, remaining)
                  IN  IF closed.div THEN Diverged
                      ELSE merge_splits(splits, i + 1, separator, chunk_size,
                                        overlap, remaining, closed.segs,
                                        seed_chunk(closed.segs, split, overlap))

recursive_split(text, chunk_size, overlap, separators) ==
    IF separators = << >> THEN force_split(text, chunk_size, overlap)
    ELSE LET separator == Head(separators)
             remaining == Tail(separators)
             splits == SplitOn(text, separator)
         IN  IF Len(splits) = 1
             THEN recursive_split(text, chunk_size, overlap, remaining)
             ELSE merge_splits(splits, 1, separator, chunk_size, overlap,
                               remaining, << >>, << >>)

\* ------------------------------------------------------------------------
\* HierarchicalChunker: the Protector and the Restorer
\* ------------------------------------------------------------------------

NL == << "\n" >>

\* CODE_BLOCK_PATTERN.finditer(text), from offset from on: the matched
\* texts.  ```[\s\S]*?``` matches from a fence to the nearest fence that
\* starts at least three characters later.
RECURSIVE code_matches(_, _)
code_matches(text, from) ==
    LET p == Find(text, FENCE, from)
        q == Find(text, FENCE, p + 3)
    IN  IF p = -1 \/ q = -1 THEN << >>
        ELSE << Slice(text, p, q + 3) >> \o code_matches(text, q + 3)

\* \|[^\n]+\|\n at offset p: the offset after the row, or -1.  The row runs
\* from a pipe to the pipe that ends its line, with a character between.
row_end(text, p) ==
    IF p < Len(text) /\ text[p + 1] = "|"
    THEN LET e == Find(text, NL, p)
         IN  IF e # -1 /\ e >= p + 3 /\ text[e] = "|" THEN e + 1 ELSE -1
    ELSE -1

\* The greedy repetition (...)+ once a first row ended at p
RECURSIVE rows_end(_, _)
rows_end(text, p) ==
    LET e == row_end(text, p)
    IN  IF e = -1 THEN p ELSE rows_end(text, e)

\* TABLE_PATTERN.finditer(text), from offset from on: the matched texts
RECURSIVE table_matches(_, _)
table_matches(text, from) ==
    IF from >= Len(text) THEN << >>
    ELSE LET e == row_end(text, from)
         IN  IF e = -1 THEN table_matches(text, from + 1)
             ELSE LET end == rows_end(text, e)
                  IN  << Slice(text, from, end) >> \o table_matches(text, end)

CODE_PREFIX == << "_", "_", "C", "O", "D", "E", "_", "B", "L", "O", "C", "K", "_" >>

TABLE_PREFIX == << "_", "_", "T", "A", "B", "L", "E", "_" >>

\* f"__CODE_BLOCK_{i}__" and f"__TABLE_{i}__"
placeholder(prefix, i) == prefix \o IntToStr(i) \o << "_", "_" >>

\* One loop of _protect_content over the matches, from match i on (0-based):
\* the block is recorded under its placeholder and the first occurrence of
\* the matched text in the text as it is by then is replaced.
RECURSIVE protect_loop(_, _, _, _, _)
protect_loop(matches, i, prefix, text, protected_blocks) ==
    IF i >= Len(matches) THEN [text |-> text, protected_blocks |-> protected_blocks]
    ELSE LET ph == placeholder(prefix, i)
             original == matches[i + 1]
         IN  protect_loop(matches, i + 1, prefix,
                          ReplaceFirst(text, original, ph),
                          Append(protected_blocks,
                                 [placeholder |-> ph, original |-> original]))

\* _protect_content with the two loops in the other order: tables first,
\* then the code blocks of the text so far
protect_content_tables_first(text) ==
    LET tables == protect_loop(table_matches(text, 0), 0, TABLE_PREFIX, text, << >>)
    IN  protect_loop(code_matches(tables.text, 0), 0, CODE_PREFIX,
                     tables.text, tables.protected_blocks)

\* _protect_content: code blocks first, then the tables of the text so far.
\* The block map is the dict in insertion order.
protect_content(text) ==
    LET code == protect_loop(code_matches(text, 0), 0, CODE_PREFIX, text, << >>)
    IN  protect_loop(table_matches(code.text, 0), 0, TABLE_PREFIX,
                     code.text, code.protected_blocks)

\* _restore_content: every placeholder, in the map's order, replaced
\* wherever it occurs in the text as it is by then.
RECURSIVE restore_content(_, _)
restore_content(text, protected_blocks) ==
    IF protected_blocks = << >> THEN text
    ELSE restore_content(
             ReplaceAll(text, Head(protected_blocks).placeholder,
                        Head(protected_blocks).original),
             Tail(protected_blocks))

\* ------------------------------------------------------------------------
\* HierarchicalChunker: metadata
\* ------------------------------------------------------------------------

Hashes(level) == [k \in 1..level |-> "#"]

\* The number of whitespace characters from offset j on
RECURSIVE ws_run(_, _)
ws_run(s, j) ==
    IF j < Len(s) /\ s[j + 1] \in Whitespace THEN 1 + ws_run(s, j + 1) ELSE 0

\* The end of the line that holds offset j: the next newline, or the end
line_end(s, j) ==
    LET e == Find(s, NL, j) IN IF e = -1 THEN Len(s) ELSE e

\* ^#{level}\s+(.+?)$ at offset i under re.MULTILINE: Some(group 1), or
\* None.  \s+ is greedy and gives characters back until a character other
\* than a newline follows; the lazy group then runs to the end of its line.
header_at(s, i, level) ==
    IF (i = 0 \/ s[i] = "\n") /\ StartsAt(s, i, Hashes(level))
    THEN LET base == i + level
             ks == {k \in 1..ws_run(s, base) :
                        base + k < Len(s) /\ s[base + k + 1] # "\n"}
         IN  IF ks = {} THEN None
             ELSE LET k == CHOOSE x \in ks : \A y \in ks : y <= x
                  IN  Some(Slice(s, base + k, line_end(s, base + k)))
    ELSE None

\* re.search of the header pattern from offset i on: the first match's
\* title, stripped, or None
RECURSIVE header_search(_, _, _)
header_search(s, i, level) ==
    IF i >= Len(s) THEN None
    ELSE LET m == header_at(s, i, level)
         IN  IF m # None THEN Some(Strip(m[1])) ELSE header_search(s, i + 1, level)

UPPER == << "A", "B", "C", "D", "E", "F", "G", "H", "I", "J", "K", "L", "M",
            "N", "O", "P", "Q", "R", "S", "T", "U", "V", "W", "X", "Y", "Z" >>

LOWER == << "a", "b", "c", "d", "e", "f", "g", "h", "i", "j", "k", "l", "m",
            "n", "o", "p", "q", "r", "s", "t", "u", "v", "w", "x", "y", "z" >>

IsUpper(c) == \E k \in 1..26 : UPPER[k] = c

\* str.lower()
Lower(s) ==
    [n \in 1..Len(s) |->
        IF IsUpper(s[n]) THEN LOWER[CHOOSE k \in 1..26 : UPPER[k] = s[n]] ELSE s[n]]

VOL_PY == << "v", "o", "l", ".", "p", "y" >>

VOL == << "v", "o", "l" >>

DASH_F == << "-", "f" >>

VOLATILITY == << "v", "o", "l", "a", "t", "i", "l", "i", "t", "y" >>

\* (?:vol\.py|vol\s+-f|volatility) at offset i: the offset after it, or -1
keyword_end(s, i) ==
    IF StartsAt(s, i, VOL_PY) THEN i + 6
    ELSE IF StartsAt(s, i, VOL) /\ ws_run(s, i + 3) > 0
            /\ StartsAt(s, i + 3 + ws_run(s, i + 3), DASH_F)
    THEN i + 3 + ws_run(s, i + 3) + 2
    ELSE IF StartsAt(s, i, VOLATILITY) THEN i + 10
    ELSE -1

\* re.search(r'vol\.py|vol\s+-f|volatility', chunk, re.IGNORECASE)
has_command_text(chunk) ==
    \E i \in 0..(Len(chunk) - 1) : keyword_end(Lower(chunk), i) # -1

TABLE_RULE == << "|", "-", "-", "-", "|" >>

TABLE_RULE_SPACED == << "|", " ", "-", "-", "-", " ", "|" >>

\* _extract_metadata
extract_metadata(chunk) ==
    [chapter |-> header_search(chunk, 0, 1),
     section |-> header_search(chunk, 0, 2),
     subsection |-> header_search(chunk, 0, 3),
     has_code |-> Contains(chunk, FENCE),
     has_table |-> Contains(chunk, TABLE_RULE) \/ Contains(chunk, TABLE_RULE_SPACED),
     has_command |-> has_command_text(chunk)]

\* The lookahead (?=\n\n|\n[A-Z]|\Z) at offset e
command_stop(s, e) ==
    \/ e >= Len(s)
    \/ StartsAt(s, e, << "\n", "\n" >>)
    \/ (s[e + 1] = "\n" /\ e + 1 < Len(s) /\ IsUpper(s[e + 2]))

\* The lazy .*? under re.DOTALL from offset e on: the first offset where
\* the lookahead holds
RECURSIVE command_end(_, _)
command_end(s, e) == IF command_stop(s, e) THEN e ELSE command_end(s, e + 1)

\* COMMAND_PATTERN.finditer(text), from offset from on: the matched texts
RECURSIVE command_matches(_, _)
command_matches(s, from) ==
    IF from >= Len(s) THEN << >>
    ELSE LET k == keyword_end(s, from)
         IN  IF k = -1 THEN command_matches(s, from + 1)
             ELSE LET e == command_end(s, k)
                  IN  << Slice(s, from, e) >> \o command_matches(s, e)

\* ------------------------------------------------------------------------
\* HierarchicalChunker: page, prefix and id of a chunk
\* ------------------------------------------------------------------------

\* How much of a restored chunk chunk_content looks up in the text.
PROBE_LEN == 100

\* text.find(restored_chunk[:100]) if len(restored_chunk) > 100 else 0
chunk_start(text, restored_chunk) ==
    IF Len(restored_chunk) > PROBE_LEN
    THEN Find(text, Slice(restored_chunk, 0, PROBE_LEN), 0)
    ELSE 0

\* The loop of _estimate_page over the markers sorted by page: markers[p]
\* is the offset where page p begins.
RECURSIVE page_loop(_, _, _, _)
page_loop(position, markers, page, current_page) ==
    IF page > Len(markers) THEN current_page
    ELSE IF position >= markers[page]
    THEN page_loop(position, markers, page + 1, page)
    ELSE current_page

\* _estimate_page
estimate_page(position, markers) ==
    IF markers = << >> THEN None ELSE Some(page_loop(position, markers, 1, 1))

\* Python's truth value of an optional str
Truthy(opt) == opt # None /\ opt[1] # << >>

\* a or b
Or(a, b) == IF Truthy(a) THEN a ELSE b

SOURCE_LABEL == << "S", "o", "u", "r", "c", "e", ":", " " >>

CHAPTER_LABEL == << "C", "h", "a", "p", "t", "e", "r", ":", " " >>

SECTION_LABEL == << "S", "e", "c", "t", "i", "o", "n", ":", " " >>

RULE == << "-", "-", "-" >>

\* _build_contextual_prefix
build_contextual_prefix(book_title, chapter, section) ==
    SOURCE_LABEL \o book_title \o NL
    \o (IF Truthy(chapter) THEN CHAPTER_LABEL \o chapter[1] \o NL ELSE << >>)
    \o (IF Truthy(section) THEN SECTION_LABEL \o section[1] \o NL ELSE << >>)
    \o RULE \o NL

ID_WIDTH == 4

\* f"{i:04d}"
RECURSIVE ZeroPad(_, _)
ZeroPad(digits, width) ==
    IF Len(digits) >= width THEN digits ELSE ZeroPad(<< "0" >> \o digits, width)

\* f"{title.lower().replace(' ', '_')}_{chunk_index:04d}"
make_chunk_id(book_title, index) ==
    ReplaceAll(Lower(book_title), << " " >>, << "_" >>) \o << "_" >>
    \o ZeroPad(IntToStr(index), ID_WIDTH)

\* ------------------------------------------------------------------------
\* ContextualPreprocessor (src/src/dfir_assistant/ingestion/preprocessor.py)
\* ------------------------------------------------------------------------

\* ContextualConfig's field defaults
DEFAULT_SEPARATOR == RULE

DEFAULT_MAX_CONTEXT_LENGTH == 200

ContextualConfig(source, chapter, section, page, separator, max_context_length) ==
    [include_source |-> source, include_chapter |-> chapter,
     include_section |-> section, include_page |-> page,
     separator |-> separator, max_context_length |-> max_context_length]

DefaultContextualConfig ==
    ContextualConfig(TRUE, TRUE, TRUE, FALSE, DEFAULT_SEPARATOR,
                     DEFAULT_MAX_CONTEXT_LENGTH)

\* _get_source_label: labels.get(source_type, "Source")
get_source_label(source_type) ==
    CASE source_type = "book" -> << "S", "o", "u", "r", "c", "e" >>
      [] source_type = "doc" -> << "D", "o", "c", "u", "m", "e", "n", "t" >>
      [] source_type = "org" -> << "O", "r", "g", "a", "n", "i", "z", "a", "t", "i", "o", "n", " ", "K", "n", "o", "w", "l", "e", "d", "g", "e" >>
      [] source_type = "procedure" -> << "P", "r", "o", "c", "e", "d", "u", "r", "e" >>
      [] OTHER -> << "S", "o", "u", "r", "c", "e" >>

COLON == << ":", " " >>

PAGE_LABEL == << "P", "a", "g", "e", ":", " " >>

ELLIPSIS == << ".", ".", "." >>

\* Python's truth value of an optional int
TruthyInt(opt) == opt # None /\ opt[1] # 0

\* "\n".join(parts)
RECURSIVE Join(_)
Join(parts) ==
    IF parts = << >> THEN << >>
    ELSE IF Len(parts) = 1 THEN parts[1]
    ELSE Head(parts) \o NL \o Join(Tail(parts))

\* The parts list with every field that has a value, whatever the include
\* flags say
prefix_parts_unflagged(cfg, source, chapter, section, page, source_type) ==
    (IF Truthy(source)
     THEN << get_source_label(source_type) \o COLON \o source[1] >> ELSE << >>)
    \o (IF Truthy(chapter) THEN << CHAPTER_LABEL \o chapter[1] >> ELSE << >>)
    \o (IF Truthy(section) THEN << SECTION_LABEL \o section[1] >> ELSE << >>)
    \o (IF TruthyInt(page) THEN << PAGE_LABEL \o IntToStr(page[1]) >> ELSE << >>)

\* The parts list of build_contextual_prefix
prefix_parts(cfg, source, chapter, section, page, source_type) ==
    (IF cfg.include_source /\ Truthy(source)
     THEN << get_source_label(source_type) \o COLON \o source[1] >> ELSE << >>)
    \o (IF cfg.include_chapter /\ Truthy(chapter)
        THEN << CHAPTER_LABEL \o chapter[1] >> ELSE << >>)
    \o (IF cfg.include_section /\ Truthy(section)
        THEN << SECTION_LABEL \o section[1] >> ELSE << >>)
    \o (IF cfg.include_page /\ TruthyInt(page)
        THEN << PAGE_LABEL \o IntToStr(page[1]) >> ELSE << >>)

\* The joined parts, cut to max_context_length - 3 characters and an
\* ellipsis when they are longer than max_context_length
truncated(cfg, joined) ==
    IF Len(joined) > cfg.max_context_length
    THEN Slice(joined, 0, cfg.max_context_length - 3) \o ELLIPSIS
    ELSE joined

\* ContextualPreprocessor.build_contextual_prefix
ContextualPreprocessor_build_contextual_prefix(cfg, source, chapter, section, page, source_type) ==
    LET parts == prefix_parts(cfg, source, chapter, section, page, source_type)
    IN  IF parts = << >> THEN << >>
        ELSE truncated(cfg, Join(parts)) \o NL \o cfg.separator \o NL

\* The prefix preprocess_chunk computes from the chunk's own fields
prefix_of_chunk(cfg, c) ==
    ContextualPreprocessor_build_contextual_prefix(
        cfg, Some(c.book_title), c.chapter, c.section, c.page, c.source_type)

\* preprocess_chunk without the early return: the prefix is computed anew
\* whatever the chunk holds
preprocess_chunk_always(cfg, c) ==
    [c EXCEPT !.contextual_prefix = prefix_of_chunk(cfg, c)]

\* ContextualPreprocessor.preprocess_chunk: the chunk itself when it has a
\* prefix, else a new Chunk with the same fields and the computed prefix
preprocess_chunk(cfg, c) ==
    IF c.contextual_prefix # << >> THEN c
    ELSE [chunk_id |-> c.chunk_id,
          content |-> c.content,
          contextual_prefix |-> prefix_of_chunk(cfg, c),
          source_type |-> c.source_type,
          book_title |-> c.book_title,
          chapter |-> c.chapter,
          section |-> c.section,
          page |-> c.page,
          chunk_index |-> c.chunk_index]

\* get_text_for_embedding without the prefix computed on demand: the stored
\* prefix, empty or not, and the content
get_text_for_embedding_stored(cfg, c) == c.contextual_prefix \o c.content

\* ContextualPreprocessor.get_text_for_embedding: the stored prefix, or the
\* prefix built from the chunk's fields when the stored one is empty, and
\* then the content
get_text_for_embedding(cfg, c) ==
    LET prefix_used == IF c.contextual_prefix # << >> THEN c.contextual_prefix
                       ELSE prefix_of_chunk(cfg, c)
    IN  prefix_used \o c.content

\* ------------------------------------------------------------------------
\* HierarchicalChunker.validate_chunk and ChunkValidator.validate_chunks
\* ------------------------------------------------------------------------

\* The endings validate_chunk takes for a complete sentence
SENTENCE_ENDS == { << "." >>, << "!" >>, << "?" >>, << ":" >>, FENCE, << "|" >> }

\* s.endswith(suffix)
EndsWith(s, suffix) == StartsAt(s, Len(s) - Len(suffix), suffix)

\* The characters of [\x00-\x08\x0b\x0c\x0e-\x1f\x7f-\x9f] that a string
\* of the model can hold: the form feed \x0c
GARBAGE == { "\f" }

\* A deduction for a split code block as small as the one for a split table
WEIGHT_SPLIT_CODE_LIGHT == FLOAT_0_2

\* A deduction for garbage characters as large as the one for a split code
\* block
WEIGHT_GARBAGE_HEAVY == FLOAT_0_3

\* The deductions of the quality score
WEIGHT_INCOMPLETE == FLOAT_0_1

WEIGHT_SPLIT_TABLE == FLOAT_0_2

WEIGHT_SPLIT_CODE == FLOAT_0_3

WEIGHT_GARBAGE == FLOAT_0_2

\* if flag: score -= weight
deduct(score, flag, weight) == IF flag THEN float_sub(score, weight) ELSE score

\* metrics.issues.append(text) when the flag is raised
issue(flag, description) == IF flag THEN << description >> ELSE << >>

\* validate_chunk: the ChunkQualityMetrics of a chunk
validate_chunk(c) ==
    LET content == c.content
        incomplete ==
            /\ content # << >>
            /\ \A e \in SENTENCE_ENDS : ~EndsWith(RStrip(content), e)
        split_code == Count(content, FENCE) % 2 # 0
        split_table ==
            /\ StartsAt(Strip(content), 0, << "|" >>)
            /\ ~Contains(content, TABLE_RULE)
        garbage == \E k \in 1..Len(content) : content[k] \in GARBAGE
        score == deduct(deduct(deduct(deduct(FLOAT_1_0,
                     incomplete, WEIGHT_INCOMPLETE),
                     split_code, WEIGHT_SPLIT_CODE),
                     split_table, WEIGHT_SPLIT_TABLE),
                     garbage, WEIGHT_GARBAGE)
    IN  [is_complete_sentence |-> ~incomplete,
         has_split_code_block |-> split_code,
         has_split_table |-> split_table,
         has_garbage_chars |-> garbage,
         quality_score |-> float_max(FLOAT_0_0, score),
         issues |-> issue(incomplete, "Chunk may end mid-sentence")
                    \o issue(split_code, "Code block may be split")
                    \o issue(split_table, "Table may be split")
                    \o issue(garbage, "Contains garbage characters")]

\* total_score after the chunks 1..k
RECURSIVE total_score(_, _)
total_score(cs, k) ==
    IF k = 0 THEN FLOAT_0_0
    ELSE float_add(total_score(cs, k - 1), validate_chunk(cs[k]).quality_score)

\* The issues list after the chunks 1..k
RECURSIVE issues_of(_, _)
issues_of(cs, k) ==
    IF k = 0 THEN << >>
    ELSE LET m == validate_chunk(cs[k])
         IN  issues_of(cs, k - 1)
             \o (IF m.issues # << >>
                 THEN << [chunk_id |-> cs[k].chunk_id, issues |-> m.issues,
                          score |-> m.quality_score] >>
                 ELSE << >>)

\* How many entries of the issues list a report holds
ISSUES_SHOWN == 20

\* The mean score a batch passes with
PASS_SCORE == FLOAT_0_9

\* The whole number nearest to a / b, ties to even, for a >= 0 and b > 0
RoundHalfEven(a, b) ==
    LET q == a \div b
        r == a % b
    IN  IF 2 * r > b \/ (2 * r = b /\ q % 2 = 1) THEN q + 1 ELSE q

\* The report of validate_chunks.  average_quality_score is in thousandths
\* and issue_rate in tenths of a percent: len(issues) / total * 100 is
\* either exact in doubles or further from a rounding boundary than the
\* rounding error of a double, for every total below 32.
validate_chunks(cs) ==
    LET total == Len(cs)
        issues == issues_of(cs, total)
        avg_score == IF total > 0 THEN float_div(total_score(cs, total), total)
                     ELSE FLOAT_0_0
    IN  [total_chunks |-> total,
         average_quality_score |-> round3(avg_score),
         chunks_with_issues |-> Len(issues),
         issue_rate |-> IF total > 0 THEN RoundHalfEven(Len(issues) * 1000, total)
                        ELSE 0,
         issues |-> Slice(issues, 0, ISSUES_SHOWN),
         passed |-> float_ge(avg_score, PASS_SCORE)]

\* ------------------------------------------------------------------------
\* VRAMMonitor (src/src/dfir_assistant/validation/vram_monitor.py)
\* ------------------------------------------------------------------------

\* Amounts of memory are whole numbers of quarters of a GiB: NVML's byte
\* counts are taken to be multiples of 2^28, so that bytes / (1024 ** 3) is
\* exact in a double and the comparisons are those of the whole numbers.
GB == 4

\* VRAMMonitor.WARNING_THRESHOLD_GB and CRITICAL_THRESHOLD_GB
WARNING_THRESHOLD_GB == 22 * GB

CRITICAL_THRESHOLD_GB == 23 * GB

\* The float -1.0 that stands for an amount that cannot be read
UNREAD == -1 * GB

\* VRAMMonitor(warning_threshold, critical_threshold, on_warning,
\* on_critical), with what _init_nvml made of _initialized and _handle
VRAMMonitor(warning_threshold, critical_threshold, on_warning, on_critical, initialized) ==
    [WARNING_THRESHOLD_GB |->
         IF warning_threshold # None THEN warning_threshold[1] ELSE WARNING_THRESHOLD_GB,
     CRITICAL_THRESHOLD_GB |->
         IF critical_threshold # None THEN critical_threshold[1] ELSE CRITICAL_THRESHOLD_GB,
     on_warning |-> on_warning,
     on_critical |-> on_critical,
     initialized |-> initialized]

\* get_usage_gb: -1.0 without NVML or when nvmlDeviceGetMemoryInfo raises
get_usage_gb(mon, g) ==
    IF ~mon.initialized \/ g.used = None THEN UNREAD ELSE g.used[1]

\* get_total_gb
get_total_gb(mon, g) ==
    IF ~mon.initialized \/ g.total = None THEN UNREAD ELSE g.total[1]

\* A call that returned a value, and a call that raised an exception
Result(v) == [raised |-> "", value |-> << v >>]

Raise(exception) == [raised |-> exception, value |-> << >>]

VRAMHealth(status, usage_gb, total_gb, message) ==
    [status |-> status, usage_gb |-> usage_gb, total_gb |-> total_gb,
     message |-> message]

\* f"{usage:.1f}" of an amount
OneDecimal(q) ==
    LET t == RoundHalfEven(q * 10, GB)
    IN  IntToStr(t \div 10) \o << "." >> \o << Digit(t % 10) >>

\* A message: its text before the formatted usage, the usage, the text
\* after.  "(o)" stands for the red circle and "(!)" for the warning sign.
Message(head, usage, tail) == Some([head |-> head, usage |-> usage, tail |-> tail])

MSG_UNAVAILABLE ==
    Message("VRAM monitoring unavailable - no GPU or driver issue", << >>, "")

\* check_health, up to its callbacks.  The logger.info line divides usage by
\* total and raises ZeroDivisionError when total is 0.0.
check_health(mon, g) ==
    LET usage == get_usage_gb(mon, g)
        total == get_total_gb(mon, g)
    IN  IF usage < 0 \/ total < 0
        THEN Result(VRAMHealth("unavailable", 0, 0, MSG_UNAVAILABLE))
        ELSE IF total = 0 THEN Raise("ZeroDivisionError")
        ELSE IF usage >= mon.CRITICAL_THRESHOLD_GB
        THEN Result(VRAMHealth("critical", usage, total,
                 Message("(o) Critical VRAM pressure (", OneDecimal(usage),
                         "GB) - service may be unstable")))
        ELSE IF usage >= mon.WARNING_THRESHOLD_GB
        THEN Result(VRAMHealth("warning", usage, total,
                 Message("(!) High VRAM usage (", OneDecimal(usage),
                         "GB) - monitoring closely")))
        ELSE Result(VRAMHealth("ok", usage, total, None))

\* The callbacks a check_health call with this result calls
callbacks_of(mon, h) ==
    IF h.raised # "" THEN << >>
    ELSE IF h.value[1].status = "critical" /\ mon.on_critical THEN << "on_critical" >>
    ELSE IF h.value[1].status = "warning" /\ mon.on_warning THEN << "on_warning" >>
    ELSE << >>

FRIENDLY_CRITICAL ==
    << "(!) The system is experiencing high memory usage. ",
       "Your response may be delayed or incomplete. ",
       "Please try again in a few moments or simplify your question." >>

FRIENDLY_WARNING ==
    << "Note: System resources are currently constrained. ",
       "Response time may be longer than usual." >>

\* get_user_friendly_error on the result of its check_health call; the
\* empty string is the empty sequence of parts
get_user_friendly_error(h) ==
    IF h.raised # "" THEN h
    ELSE IF h.value[1].status = "critical" THEN Result(FRIENDLY_CRITICAL)
    ELSE IF h.value[1].status = "warning" THEN Result(FRIENDLY_WARNING)
    ELSE Result(<< >>)

\* is_healthy on the result of its check_health call
is_healthy(h) ==
    IF h.raised # "" THEN h ELSE Result(h.value[1].status = "ok")

\* ------------------------------------------------------------------------
\* State
\* ------------------------------------------------------------------------

VARIABLES
    pc,               \* where the modelled call stands
    requested,        \* the ChunkingConfig handed to the constructor, or None
    config,           \* HierarchicalChunker.config
    title,            \* content.document.title
    text,             \* content.markdown_content, or the argument text
    page_markers,     \* content.page_markers
    protected_text,   \* chunk_content's protected_text
    protected_blocks, \* chunk_content's protected_blocks
    raw_chunks,       \* chunk_content's raw_chunks
    pos,              \* the 1-based place of the for loop in raw_chunks
    chunk_index,      \* chunk_content's chunk_index
    current_chapter,  \* chunk_content's current_chapter
    current_section,  \* chunk_content's current_section
    emitted,          \* the Chunk values yielded so far
    emitted_from,     \* for each of them, the place in raw_chunks it came from
    arg_size,         \* the chunk_size argument of a direct splitter call
    arg_overlap,      \* the overlap argument of a direct splitter call
    split_result,     \* what the direct splitter call returned
    restored_text,    \* what the direct _restore_content call returned
    pending,          \* the ExtractedContent values chunk_content is called on next
    finished,         \* the earlier chunk_content calls: their input and chunks
    pre_config,       \* ContextualPreprocessor.config
    pre_args,         \* the arguments of a build_contextual_prefix call
    prefix,           \* what the build_contextual_prefix call returned
    chunk,            \* the Chunk handed to preprocess_chunk or validate_chunk
    processed,        \* what preprocess_chunk returned, then what it returned
                      \* for that value
    metrics,          \* what validate_chunk returned
    chunks,           \* the list handed to validate_chunks
    report,           \* what validate_chunks returned
    embedding,        \* what get_text_for_embedding returned for the chunk and
                      \* for what preprocess_chunk made of it
    stats,            \* BatchPreprocessor._stats
    batch_out,        \* what the last process_batch call returned
    counted,          \* the chunks handed to process_batch with update_stats
                      \* since the last reset_stats
    stats_view,       \* the dictionary the stats property returned, as its
                      \* caller holds it
    batch_calls,      \* the BatchPreprocessor calls made so far
    monitor,          \* the VRAMMonitor: its thresholds and callbacks
    gpu,              \* what NVML answers: the bytes used and the bytes in all
    health,           \* what check_health returned
    answer,           \* what is_healthy or get_user_friendly_error returned
    notified,         \* the callbacks called so far, in order
    reconfigured      \* the consumer of the generator assigned to
                      \* chunker.config.min_chunk_size between two chunks

vars == << pc, requested, config, title, text, page_markers, protected_text,
           protected_blocks, raw_chunks, pos, chunk_index, current_chapter,
           current_section, emitted, emitted_from, arg_size, arg_overlap,
           split_result, restored_text, pending, finished, pre_config,
           pre_args, prefix, chunk, processed, metrics, chunks, report,
           embedding, stats, batch_out, counted, stats_view, batch_calls,
           monitor, gpu, health, answer, notified, reconfigured >>

run_vars == << protected_text, protected_blocks, raw_chunks, pos, chunk_index,
               current_chapter, current_section, emitted, emitted_from >>

call_vars == << arg_size, arg_overlap, split_result, restored_text >>

batch_vars == << pending, finished >>

pre_vars == << pre_config, pre_args, prefix, chunk, processed >>

val_vars == << metrics, chunks, report >>

embed_vars == << embedding >>

stats_vars == << stats, batch_out, counted, stats_view, batch_calls >>

vram_vars == << monitor, gpu, health, answer, notified >>

consumer_vars == << reconfigured >>

more_vars == << embed_vars, stats_vars, vram_vars, consumer_vars >>

ext_vars == << batch_vars, pre_vars, val_vars, more_vars >>

\* ChunkingConfig's field defaults
DEFAULT_CHUNK_SIZE == 512

DEFAULT_CHUNK_OVERLAP == 100

DEFAULT_MIN_CHUNK_SIZE == 100

ChunkingConfig(size, overlap, min_size) ==
    [chunk_size |-> size, chunk_overlap |-> overlap, min_chunk_size |-> min_size]

DefaultConfig ==
    ChunkingConfig(DEFAULT_CHUNK_SIZE, DEFAULT_CHUNK_OVERLAP, DEFAULT_MIN_CHUNK_SIZE)

\* The state of a chunk_content call that has not run yet
RunIdle ==
    /\ protected_text = << >>
    /\ protected_blocks = << >>
    /\ raw_chunks = << >>
    /\ pos = 1
    /\ chunk_index = 0
    /\ current_chapter = None
    /\ current_section = None
    /\ emitted = << >>
    /\ emitted_from = << >>

CallIdle ==
    /\ arg_size = 0
    /\ arg_overlap = 0
    /\ split_result = Returned(<< >>)
    /\ restored_text = << >>

BatchIdle ==
    /\ pending = << >>
    /\ finished = << >>

PreIdle ==
    /\ pre_config = None
    /\ pre_args = None
    /\ prefix = << >>
    /\ chunk = None
    /\ processed = << >>

ValIdle ==
    /\ metrics = None
    /\ chunks = << >>
    /\ report = None

EmbedIdle == embedding = << >>

\* BatchPreprocessor.__init__: the three counters at 0
NEW_STATS == [total_processed |-> 0, with_existing_prefix |-> 0, prefix_added |-> 0]

StatsIdle ==
    /\ stats = NEW_STATS
    /\ batch_out = << >>
    /\ counted = 0
    /\ stats_view = None
    /\ batch_calls = << >>

VramIdle ==
    /\ monitor = None
    /\ gpu = None
    /\ health = None
    /\ answer = None
    /\ notified = << >>

ConsumerIdle == reconfigured = FALSE

MoreIdle == EmbedIdle /\ StatsIdle /\ VramIdle /\ ConsumerIdle

\* ------------------------------------------------------------------------
\* chunk_content, one document
\* ------------------------------------------------------------------------

\* protected_text, protected_blocks = self._protect_content(text)
Protect ==
    /\ pc = "start"
    /\ LET p == protect_content(text)
       IN  /\ protected_text' = p.text
           /\ protected_blocks' = p.protected_blocks
    /\ pc' = "protected"
    /\ UNCHANGED << requested, config, title, text, page_markers, raw_chunks, pos,
                    chunk_index, current_chapter, current_section, emitted,
                    emitted_from, call_vars, ext_vars >>

\* raw_chunks = self._recursive_split(...); a call that never returns leaves
\* chunk_content in the splitter for good.
split_of_run ==
    recursive_split(protected_text, chunk_size_chars(config),
                    chunk_overlap_chars(config), SEPARATORS)

\* The split and the start of the for loop with the running chapter and
\* section left as the call before set them
SplitRunKeeping ==
    /\ pc = "protected"
    /\ IF split_of_run.div
       THEN /\ pc' = "hung"
            /\ UNCHANGED << raw_chunks, pos, chunk_index >>
       ELSE /\ pc' = "loop"
            /\ raw_chunks' = split_of_run.segs
            /\ pos' = 1
            /\ chunk_index' = 0
    /\ UNCHANGED << requested, config, title, text, page_markers, protected_text,
                    protected_blocks, current_chapter, current_section, emitted,
                    emitted_from, call_vars, ext_vars >>

\* The split, then chunk_index = 0, current_chapter = None, current_section =
\* None and the start of the for loop
SplitRun ==
    /\ pc = "protected"
    /\ IF split_of_run.div
       THEN /\ pc' = "hung"
            /\ UNCHANGED << raw_chunks, pos, chunk_index, current_chapter,
                            current_section >>
       ELSE /\ pc' = "loop"
            /\ raw_chunks' = split_of_run.segs
            /\ pos' = 1
            /\ chunk_index' = 0
            /\ current_chapter' = None
            /\ current_section' = None
    /\ UNCHANGED << requested, config, title, text, page_markers, protected_text,
                    protected_blocks, emitted, emitted_from, call_vars, ext_vars >>

raw_chunk == raw_chunks[pos]

restored_chunk == restore_content(raw_chunk, protected_blocks)

too_small(restored) == Len(Strip(restored)) < min_chunk_size_chars(config)

\* A pass that ends in continue and counts the segment all the same
SkipChunkCounting ==
    /\ pc = "loop"
    /\ pos <= Len(raw_chunks)
    /\ too_small(restored_chunk)
    /\ pos' = pos + 1
    /\ chunk_index' = chunk_index + 1
    /\ UNCHANGED << pc, requested, config, title, text, page_markers,
                    protected_text, protected_blocks, raw_chunks,
                    current_chapter, current_section, emitted, emitted_from,
                    call_vars, ext_vars >>

\* One pass of the for loop that ends in continue
SkipChunk ==
    /\ pc = "loop"
    /\ pos <= Len(raw_chunks)
    /\ too_small(restored_chunk)
    /\ pos' = pos + 1
    /\ UNCHANGED << pc, requested, config, title, text, page_markers,
                    protected_text, protected_blocks, raw_chunks, chunk_index,
                    current_chapter, current_section, emitted, emitted_from,
                    call_vars, ext_vars >>

\* The running value after a chunk whose own value is found
running(current, found) == IF Truthy(found) THEN found ELSE current

\* The Chunk a pass of the for loop yields
make_chunk(restored, metadata, chapter, section) ==
    [chunk_id |-> make_chunk_id(title, chunk_index),
     content |-> Strip(restored),
     contextual_prefix |->
         build_contextual_prefix(title, Or(chapter, metadata.chapter),
                                 Or(section, metadata.section)),
     source_type |-> "book",
     book_title |-> title,
     chapter |-> Or(chapter, metadata.chapter),
     section |-> Or(section, metadata.section),
     page |-> estimate_page(chunk_start(text, restored), page_markers),
     chunk_index |-> chunk_index]

\* The values the consumer assigns to min_chunk_size, in tokens
MinSizes == {0, 100}

\* One pass of the for loop up to its yield: the generator hands the chunk
\* to its consumer and is suspended there, chunk_index not yet counted up
YieldChunk ==
    /\ pc = "loop"
    /\ pos <= Len(raw_chunks)
    /\ ~too_small(restored_chunk)
    /\ LET metadata == extract_metadata(restored_chunk)
           chapter == running(current_chapter, metadata.chapter)
           section == running(current_section, metadata.section)
       IN  /\ current_chapter' = chapter
           /\ current_section' = section
           /\ emitted' = Append(emitted,
                                make_chunk(restored_chunk, metadata, chapter, section))
    /\ emitted_from' = Append(emitted_from, pos)
    /\ pc' = "yielded"
    /\ UNCHANGED << requested, config, title, text, page_markers, protected_text,
                    protected_blocks, raw_chunks, pos, chunk_index, call_vars,
                    ext_vars >>

\* The consumer asks for the next chunk: the generator goes on after the
\* yield with chunk_index += 1 and the next pass of the for loop
ResumeRun ==
    /\ pc = "yielded"
    /\ chunk_index' = chunk_index + 1
    /\ pos' = pos + 1
    /\ pc' = "loop"
    /\ UNCHANGED << requested, config, title, text, page_markers, protected_text,
                    protected_blocks, raw_chunks, current_chapter, current_section,
                    emitted, emitted_from, call_vars, ext_vars >>

\* The consumer closes the generator at the yield: nothing after the yield
\* runs, neither chunk_index += 1 nor the line after the loop
CloseRun ==
    /\ pc = "yielded"
    /\ pc' = "closed"
    /\ UNCHANGED << requested, config, title, text, page_markers, run_vars,
                    call_vars, ext_vars >>

\* The consumer assigns to chunker.config.min_chunk_size while the generator
\* is suspended; min_chunk_size_chars is the one value of the configuration
\* the loop reads again on every pass
SetMinChunkSize ==
    /\ pc = "yielded"
    /\ \E m \in MinSizes :
          /\ m # config.min_chunk_size
          /\ config' = [config EXCEPT !.min_chunk_size = m]
    /\ reconfigured' = TRUE
    /\ UNCHANGED << pc, requested, title, text, page_markers, run_vars, call_vars,
                    batch_vars, pre_vars, val_vars, embed_vars, stats_vars,
                    vram_vars >>

\* The for loop is exhausted and the generator returns
FinishRun ==
    /\ pc = "loop"
    /\ pos > Len(raw_chunks)
    /\ pc' = "done"
    /\ UNCHANGED << requested, config, title, text, page_markers, run_vars,
                    call_vars, ext_vars >>

\* What a chunk_content call was given
content_of_run == [title |-> title, text |-> text, page_markers |-> page_markers]

\* The generator of the call before is used up and chunk_content is called
\* on the next ExtractedContent, with the same chunker
NextContent ==
    /\ pc = "done"
    /\ pending # << >>
    /\ finished' = Append(finished, [content |-> content_of_run, chunks |-> emitted])
    /\ title' = Head(pending).title
    /\ text' = Head(pending).text
    /\ page_markers' = Head(pending).page_markers
    /\ pending' = Tail(pending)
    /\ emitted' = << >>
    /\ emitted_from' = << >>
    /\ pc' = "start"
    /\ UNCHANGED << requested, config, protected_text, protected_blocks, raw_chunks,
                    pos, chunk_index, current_chapter, current_section, call_vars,
                    pre_vars, val_vars, more_vars >>

\* ------------------------------------------------------------------------
\* Direct calls of the splitters, the Protector and the Restorer
\* ------------------------------------------------------------------------

CallForceSplit ==
    /\ pc = "ready"
    /\ split_result' = force_split(text, arg_size, arg_overlap)
    /\ pc' = "force_split"
    /\ UNCHANGED << requested, config, title, text, page_markers, run_vars,
                    arg_size, arg_overlap, restored_text, ext_vars >>

CallRecursiveSplit ==
    /\ pc = "ready"
    /\ split_result' = recursive_split(text, arg_size, arg_overlap, SEPARATORS)
    /\ pc' = "recursive_split"
    /\ UNCHANGED << requested, config, title, text, page_markers, run_vars,
                    arg_size, arg_overlap, restored_text, ext_vars >>

CallProtect ==
    /\ pc = "ready"
    /\ LET p == protect_content(text)
       IN  /\ protected_text' = p.text
           /\ protected_blocks' = p.protected_blocks
    /\ pc' = "protect"
    /\ UNCHANGED << requested, config, title, text, page_markers, raw_chunks, pos,
                    chunk_index, current_chapter, current_section, emitted,
                    emitted_from, call_vars, ext_vars >>

CallRestore ==
    /\ pc = "protect"
    /\ restored_text' = restore_content(protected_text, protected_blocks)
    /\ pc' = "restore"
    /\ UNCHANGED << requested, config, title, text, page_markers, run_vars,
                    arg_size, arg_overlap, split_result, ext_vars >>

\* ------------------------------------------------------------------------
\* Construction
\* ------------------------------------------------------------------------

\* ChunkingConfig(...) and HierarchicalChunker(config): the fields are stored
\* as given; self.config = config or ChunkingConfig()
Construct ==
    /\ pc = "new"
    /\ config' = IF requested = None THEN DefaultConfig ELSE requested[1]
    /\ pc' = "constructed"
    /\ UNCHANGED << requested, title, text, page_markers, run_vars, call_vars, ext_vars >>

\* chunk_content(content) is called on the constructed chunker
StartRun ==
    /\ pc = "constructed"
    /\ pc' = "start"
    /\ UNCHANGED << requested, config, title, text, page_markers, run_vars,
                    call_vars, ext_vars >>

\* ------------------------------------------------------------------------
\* Calls of the ContextualPreprocessor
\* ------------------------------------------------------------------------

\* build_contextual_prefix(source, chapter, section, page, source_type)
CallBuildPrefix ==
    /\ pc = "prefix_args"
    /\ prefix' = ContextualPreprocessor_build_contextual_prefix(
                     pre_config, pre_args.source, pre_args.chapter,
                     pre_args.section, pre_args.page, pre_args.source_type)
    /\ pc' = "prefix_built"
    /\ UNCHANGED << requested, config, title, text, page_markers, run_vars,
                    call_vars, batch_vars, pre_config, pre_args, chunk, processed,
                    val_vars, more_vars >>

\* preprocess_chunk(chunk)
PreprocessChunk ==
    /\ pc = "chunk_given"
    /\ processed' = << preprocess_chunk(pre_config, chunk[1]) >>
    /\ pc' = "preprocessed"
    /\ UNCHANGED << requested, config, title, text, page_markers, run_vars,
                    call_vars, batch_vars, pre_config, pre_args, prefix, chunk,
                    val_vars, more_vars >>

\* preprocess_chunk on what preprocess_chunk returned
PreprocessAgain ==
    /\ pc = "preprocessed"
    /\ processed' = Append(processed, preprocess_chunk(pre_config, processed[1]))
    /\ pc' = "preprocessed_twice"
    /\ UNCHANGED << requested, config, title, text, page_markers, run_vars,
                    call_vars, batch_vars, pre_config, pre_args, prefix, chunk,
                    val_vars, more_vars >>

\* get_text_for_embedding on the chunk and on what preprocess_chunk returned
\* for it
EmbedTexts ==
    /\ pc = "preprocessed"
    /\ embedding' = << get_text_for_embedding(pre_config, chunk[1]),
                       get_text_for_embedding(pre_config, processed[1]) >>
    /\ pc' = "embedded"
    /\ UNCHANGED << requested, config, title, text, page_markers, run_vars,
                    call_vars, batch_vars, pre_vars, val_vars, stats_vars,
                    vram_vars, consumer_vars >>

\* ------------------------------------------------------------------------
\* BatchPreprocessor (src/src/dfir_assistant/ingestion/preprocessor.py)
\* ------------------------------------------------------------------------

\* The counters after one pass of process_batch's loop, every pass counted
\* whatever update_stats says
tally_always(st, had_prefix, update_stats) ==
    [total_processed |-> st.total_processed + 1,
     with_existing_prefix |-> st.with_existing_prefix + (IF had_prefix THEN 1 ELSE 0),
     prefix_added |-> st.prefix_added + (IF had_prefix THEN 0 ELSE 1)]

\* The counters after one pass of process_batch's loop
tally(st, had_prefix, update_stats) ==
    IF update_stats
    THEN [total_processed |-> st.total_processed + 1,
          with_existing_prefix |-> st.with_existing_prefix + (IF had_prefix THEN 1 ELSE 0),
          prefix_added |-> st.prefix_added + (IF had_prefix THEN 0 ELSE 1)]
    ELSE st

\* process_batch from the chunk at place k on: the list it returns and the
\* counters it leaves
RECURSIVE process_batch(_, _, _, _, _)
process_batch(cfg, st, batch, update_stats, k) ==
    IF k > Len(batch) THEN [processed |-> << >>, stats |-> st]
    ELSE LET had_prefix == batch[k].contextual_prefix # << >>
             processed_chunk == preprocess_chunk(cfg, batch[k])
             rest == process_batch(cfg, tally(st, had_prefix, update_stats),
                                   batch, update_stats, k + 1)
         IN  [processed |-> << processed_chunk >> \o rest.processed,
              stats |-> rest.stats]

\* dict.copy(): a new dictionary with the same items; a write to it is not
\* a write to the one it was copied from
copy(d) == [shared |-> FALSE, items |-> d]

\* The stats property
stats_property(self_stats) == copy(self_stats)

\* ------------------------------------------------------------------------
\* Calls of the validators
\* ------------------------------------------------------------------------

\* validate_chunk(chunk)
ValidateChunk ==
    /\ pc = "chunk_to_validate"
    /\ metrics' = Some(validate_chunk(chunk[1]))
    /\ pc' = "chunk_validated"
    /\ UNCHANGED << requested, config, title, text, page_markers, run_vars,
                    call_vars, batch_vars, pre_vars, chunks, report, more_vars >>

\* ChunkValidator.validate_chunks(chunks)
ValidateChunks ==
    /\ pc = "batch_to_validate"
    /\ report' = Some(validate_chunks(chunks))
    /\ pc' = "batch_validated"
    /\ UNCHANGED << requested, config, title, text, page_markers, run_vars,
                    call_vars, batch_vars, pre_vars, metrics, chunks, more_vars >>

\* ------------------------------------------------------------------------
\* Calls of the VRAMMonitor
\* ------------------------------------------------------------------------

\* The most callbacks a VRAMMonitor is followed through
MaxNotified == 2

\* The thresholds handed to VRAMMonitor: none, a lower warning threshold,
\* a warning threshold above the critical one
Thresholds ==
    { << None, None >>, << Some(20 * GB), None >>, << Some(23 * GB), Some(22 * GB) >> }

Monitors ==
    { VRAMMonitor(t[1], t[2], cb, cb, init) :
          t \in Thresholds, cb \in BOOLEAN, init \in BOOLEAN }

\* What nvmlDeviceGetMemoryInfo answers: used and total, None when it raises
Gpus ==
    [used : {None} \cup { Some(q) : q \in {0, 20 * GB, 22 * GB - 1, 22 * GB,
                                            23 * GB - 1, 23 * GB, 24 * GB} },
     total : {None, Some(0), Some(24 * GB)}]

vram_frame ==
    << requested, config, title, text, page_markers, run_vars, call_vars,
       batch_vars, pre_vars, val_vars, embed_vars, stats_vars, monitor,
       consumer_vars >>

\* What the named method returns when its check_health call gave h
result_for(name, h) ==
    CASE name = "check_health" -> h
      [] name = "is_healthy" -> is_healthy(h)
      [] name = "get_user_friendly_error" -> get_user_friendly_error(h)

\* The frame of a call: the check_health call it makes is kept in health,
\* its callbacks are called, its own result is kept in answer
MonitorCall(name) ==
    /\ Len(notified) < MaxNotified
    /\ LET h == check_health(monitor[1], gpu[1])
       IN  /\ health' = Some(h)
           /\ notified' = notified \o callbacks_of(monitor[1], h)
           /\ answer' = Some([call |-> name, result |-> result_for(name, h)])
    /\ UNCHANGED << pc, gpu, vram_frame >>

\* check_health()
CheckHealth ==
    /\ pc = "monitoring"
    /\ MonitorCall("check_health")

\* is_healthy()
IsHealthy ==
    /\ pc = "monitoring"
    /\ MonitorCall("is_healthy")

\* get_user_friendly_error()
GetUserFriendlyError ==
    /\ pc = "monitoring"
    /\ MonitorCall("get_user_friendly_error")

\* The memory in use changes, or NVML starts or stops answering
GpuChanges ==
    /\ pc = "monitoring"
    /\ gpu' \in { Some(g) : g \in Gpus }
    /\ gpu' # gpu
    /\ UNCHANGED << pc, health, answer, notified, vram_frame >>

\* ------------------------------------------------------------------------
\* Inputs
\* ------------------------------------------------------------------------

\* The most tokens a document is made of
MaxTokens == 3

\* The longest run of one letter handed to the splitters directly
MaxRun == 12

WORD8 == [k \in 1..8 |-> "b"]

CODE_BLOCK == FENCE \o << "c" >> \o FENCE

\* A table row of 25 characters
LONG_ROW == << "|" >> \o [k \in 1..22 |-> "t"] \o << "|", "\n" >>

\* A word that ends before a hash sign, and a hash sign inside a line with a
\* tab and a word after it
HASH_WORD == << "a", "b", "c", "d" >>

HASH_NOTE == << "#", "\t", "n", "o" >>

\* A hash sign with nothing but white space after it
HASH_BLANK == << "#", "\t", "\t" >>

\* A table row with its line end
ROW_LINE == << "|", "x", "|", "\n" >>

\* The families of tokens documents are made of: whitespace; headers and
\* body text; protected blocks; long tables; command lines; hash signs
\* inside a line; fences around table rows.
Families ==
    { { << " " >>, << "\t" >>, << "\n" >> },
      { << "#", " ", "A", "\n" >>, << "#", "#", " ", "B", "\n" >>, WORD8, << "\n" >> },
      { CODE_BLOCK, << "|" >>, << "|", "\n" >>, << "a", "b" >>, << " " >> },
      { LONG_ROW, << "x" >> },
      { << "v", "o", "l", " ", "-", "f", " ", "m" >>, << "\n", "-", "p", " ", "4" >>,
        << "\n", "N", "e", "x", "t" >>, << "\n", "\n" >> },
      { HASH_WORD, HASH_NOTE, HASH_BLANK, << "\n" >> },
      { FENCE, ROW_LINE, << "c" >> } }

TokenSeqs(family) == UNION { [1..k -> family] : k \in 0..MaxTokens }

Docs == UNION { { Concat(ts) : ts \in TokenSeqs(family) } : family \in Families }

Runs == { [k \in 1..n |-> "a"] : n \in 0..MaxRun }

\* Document titles: a title with a space and a digit, and the empty title
Titles == { << "D", "F", " ", "1" >>, << >> }

MarkerSets == { << >>, << 0, 8 >> }

\* (chunk_size, chunk_overlap, min_chunk_size), in tokens
Configs ==
    { ChunkingConfig(1, 0, 0), ChunkingConfig(1, 0, 1), ChunkingConfig(2, 0, 1),
      ChunkingConfig(2, 1, 1), ChunkingConfig(6, 0, 1) }

Requests ==
    {None} \cup
    { Some(ChunkingConfig(a, b, c)) : a \in -1..3, b \in -1..3, c \in {-1, 1} }

\* The most chunk_content calls made on one chunker
MaxContents == 3

BatchTitles == { << "D", "F", " ", "1" >>, << "d", "f", "_", "1" >> }

\* A chapter with its body, a body without a header, a code block
BatchDocs ==
    { << "#", " ", "A", "\n" >> \o WORD8,
      WORD8 \o << "\n" >> \o WORD8,
      CODE_BLOCK \o << " ", "a", "b" >> }

Contents ==
    { [title |-> t, text |-> d, page_markers |-> << 0, 8 >>] :
          t \in BatchTitles, d \in BatchDocs }

\* The values of the example of the contextual prefix
WINDOWS_INTERNALS == << "W", "i", "n", "d", "o", "w", "s", " ", "I", "n", "t", "e", "r", "n", "a", "l", "s" >>

MEMORY_MANAGEMENT == << "M", "e", "m", "o", "r", "y", " ", "M", "a", "n", "a", "g", "e", "m", "e", "n", "t" >>

VAD_TREES == << "V", "A", "D", " ", "T", "r", "e", "e", "s" >>

\* max_context_length values: below the ellipsis, the ellipsis alone, one
\* that cuts the example, the default
MaxContextLengths == {0, 2, 3, 30, DEFAULT_MAX_CONTEXT_LENGTH}

PreConfigs ==
    { ContextualConfig(a, b, c, d, DEFAULT_SEPARATOR, m) :
          a \in BOOLEAN, b \in BOOLEAN, c \in BOOLEAN, d \in BOOLEAN,
          m \in MaxContextLengths }
    \cup { ContextualConfig(TRUE, TRUE, TRUE, FALSE, << "=" >>, DEFAULT_MAX_CONTEXT_LENGTH) }

SourceTypes == {"book", "doc", "org", "procedure", "web"}

PrefixArgs ==
    [source : {None, Some(<< >>), Some(WINDOWS_INTERNALS)},
     chapter : {None, Some(MEMORY_MANAGEMENT)},
     section : {None, Some(<< >>), Some(VAD_TREES)},
     page : {None, Some(0), Some(12)},
     source_type : SourceTypes]

\* Chunk values handed to preprocess_chunk
PreChunks ==
    [chunk_id : { << "w", "_", "0", "0", "0", "3" >> },
     content : { << "c", "." >> },
     contextual_prefix : { << >>, << "P", "\n" >> },
     source_type : {"book", "doc"},
     book_title : { << >>, WINDOWS_INTERNALS },
     chapter : {None, Some(MEMORY_MANAGEMENT)},
     section : {None, Some(VAD_TREES)},
     page : {None, Some(12)},
     chunk_index : {3}]

\* The most pieces the content of a validated chunk is made of
MaxPieces == 3

\* The most chunks of a validated batch
MaxBatch == 22

Pieces ==
    { << "a" >>, << "." >>, << " " >>, << "|" >>, << "\f" >>, << "\f", "a" >>,
      FENCE, TABLE_RULE }

ValContents == { Concat(ps) : ps \in UNION { [1..k -> Pieces] : k \in 0..MaxPieces } }

\* A Chunk with the given id and content
ChunkOf(id, content) ==
    [chunk_id |-> id, content |-> content, contextual_prefix |-> << >>,
     source_type |-> "book", book_title |-> << "B" >>, chapter |-> None,
     section |-> None, page |-> None, chunk_index |-> 0]

ValChunks == { ChunkOf(<< "b", "_", "0" >>, c) : c \in ValContents }

\* Contents without an issue, with one issue, and with two
CLEAN == << "o", "k", "." >>

CUT_SHORT == << "a", "b" >>

TABLE_ROW == << "|", "x", "|" >>

CUT_ROW == << "|", "x" >>

\* The batch of counts[1] chunks of the first content, then counts[2] of the
\* second and counts[3] of the third, numbered in this order
BatchOf(contents, counts) ==
    LET content_at(k) ==
            IF k <= counts[1] THEN contents[1]
            ELSE IF k <= counts[1] + counts[2] THEN contents[2]
            ELSE contents[3]
    IN  [k \in 1..(counts[1] + counts[2] + counts[3]) |->
            ChunkOf(make_chunk_id(<< "b" >>, k - 1), content_at(k))]

BatchOrders ==
    { << CLEAN, CUT_SHORT, TABLE_ROW >>, << TABLE_ROW, CLEAN, CUT_ROW >>,
      << CUT_SHORT, CUT_ROW, CLEAN >> }

\* (a, b, c) with at most MaxBatch chunks together
BatchCounts ==
    { cs \in (0..MaxBatch) \X (0..MaxBatch) \X (0..MaxBatch) :
          cs[1] + cs[2] + cs[3] <= MaxBatch }

Batches == { BatchOf(o, cs) : o \in BatchOrders, cs \in BatchCounts }

\* ------------------------------------------------------------------------
\* Specifications
\* ------------------------------------------------------------------------

\* chunk_content on one document with a constructed chunker
Init ==
    /\ pc = "start"
    /\ requested = None
    /\ config \in Configs
    /\ title \in Titles
    /\ text \in Docs
    /\ page_markers \in MarkerSets
    /\ RunIdle
    /\ CallIdle
    /\ BatchIdle
    /\ PreIdle
    /\ ValIdle
    /\ MoreIdle

Next ==
    \/ Protect \/ SplitRun \/ SkipChunk \/ YieldChunk \/ ResumeRun \/ FinishRun
    \/ CloseRun \/ SetMinChunkSize

Spec == Init /\ [][Next]_vars

\* One direct call of a splitter, or of the Protector and then the Restorer
InitCall ==
    /\ pc = "ready"
    /\ requested = None
    /\ config = DefaultConfig
    /\ title = << >>
    /\ text \in Docs \cup Runs
    /\ page_markers = << >>
    /\ RunIdle
    /\ arg_size \in 2..5
    /\ arg_overlap \in 0..(arg_size - 1)
    /\ split_result = Returned(<< >>)
    /\ restored_text = << >>
    /\ BatchIdle
    /\ PreIdle
    /\ ValIdle
    /\ MoreIdle

NextCall == CallForceSplit \/ CallRecursiveSplit \/ CallProtect \/ CallRestore

SpecCall == InitCall /\ [][NextCall]_vars

\* chunk_content on one document after another with one chunker
InitBatch ==
    /\ pc = "start"
    /\ requested = None
    /\ config \in Configs
    /\ \E c \in Contents :
           /\ title = c.title
           /\ text = c.text
           /\ page_markers = c.page_markers
    /\ pending \in UNION { [1..n -> Contents] : n \in 0..(MaxContents - 1) }
    /\ finished = << >>
    /\ RunIdle
    /\ CallIdle
    /\ PreIdle
    /\ ValIdle
    /\ MoreIdle

NextBatch ==
    \/ Protect \/ SplitRun \/ SkipChunk \/ YieldChunk \/ ResumeRun \/ FinishRun
    \/ NextContent

SpecBatch == InitBatch /\ [][NextBatch]_vars

\* One call of build_contextual_prefix, or preprocess_chunk on a chunk and
\* then on its result
InitPre ==
    /\ requested = None
    /\ config = DefaultConfig
    /\ title = << >>
    /\ text = << >>
    /\ page_markers = << >>
    /\ RunIdle
    /\ CallIdle
    /\ BatchIdle
    /\ ValIdle
    /\ MoreIdle
    /\ pre_config \in PreConfigs
    /\ prefix = << >>
    /\ processed = << >>
    /\ \/ pc = "prefix_args" /\ pre_args \in PrefixArgs /\ chunk = None
       \/ pc = "chunk_given" /\ pre_args = None /\ chunk \in { Some(c) : c \in PreChunks }

NextPre == CallBuildPrefix \/ PreprocessChunk \/ PreprocessAgain \/ EmbedTexts

SpecPre == InitPre /\ [][NextPre]_vars

\* The most calls of process_batch and reset_stats on one BatchPreprocessor
MaxCalls == 3

\* The most chunks of one batch
MaxChunks == 2

\* The chunks batches are made of: one that has a prefix and one that has not
BatchChunks ==
    { c \in PreChunks : /\ c.source_type = "book"
                        /\ c.book_title = WINDOWS_INTERNALS
                        /\ c.chapter # None
                        /\ c.section = None
                        /\ c.page = None }

ChunkBatches == UNION { [1..n -> BatchChunks] : n \in 0..MaxChunks }

\* The values a caller writes into the dictionary the stats property returned
ViewValues == {7}

\* process_batch(chunks, update_stats); a dictionary the caller read before
\* stays as it is
ProcessBatch ==
    /\ pc = "batching"
    /\ Len(batch_calls) < MaxCalls
    /\ \E batch \in ChunkBatches, update_stats \in BOOLEAN :
          LET r == process_batch(pre_config, stats, batch, update_stats, 1)
          IN  /\ stats' = r.stats
              /\ batch_out' = r.processed
              /\ counted' = counted + (IF update_stats THEN Len(batch) ELSE 0)
              /\ batch_calls' = Append(batch_calls,
                                       [op |-> "process_batch",
                                        update_stats |-> update_stats])
    /\ UNCHANGED << pc, requested, config, title, text, page_markers, run_vars,
                    call_vars, batch_vars, pre_vars, val_vars, embed_vars,
                    stats_view, vram_vars,
                    consumer_vars >>

\* reset_stats(): self._stats is bound to a new dictionary; a dictionary the
\* caller read before stays as it is
ResetStats ==
    /\ pc = "batching"
    /\ Len(batch_calls) < MaxCalls
    /\ stats' = NEW_STATS
    /\ counted' = 0
    /\ batch_calls' = Append(batch_calls,
                             [op |-> "reset_stats", update_stats |-> FALSE])
    /\ UNCHANGED << pc, requested, config, title, text, page_markers, run_vars,
                    call_vars, batch_vars, pre_vars, val_vars, embed_vars,
                    batch_out, stats_view, vram_vars,
                    consumer_vars >>

\* The caller reads the stats property
ReadStats ==
    /\ pc = "batching"
    /\ stats_view' = Some(stats_property(stats))
    /\ UNCHANGED << pc, requested, config, title, text, page_markers, run_vars,
                    call_vars, batch_vars, pre_vars, val_vars, embed_vars,
                    stats, batch_out, counted, batch_calls, vram_vars,
                    consumer_vars >>

\* The caller assigns to a key of the dictionary it read
ChangeView ==
    /\ pc = "batching"
    /\ stats_view # None
    /\ \E key \in DOMAIN NEW_STATS, value \in ViewValues :
          /\ stats_view[1].items[key] # value
          /\ stats_view' = Some([stats_view[1] EXCEPT !.items[key] = value])
          /\ stats' = IF stats_view[1].shared THEN [stats EXCEPT ![key] = value]
                      ELSE stats
    /\ UNCHANGED << pc, requested, config, title, text, page_markers, run_vars,
                    call_vars, batch_vars, pre_vars, val_vars, embed_vars,
                    batch_out, counted, batch_calls, vram_vars,
                    consumer_vars >>

\* A new BatchPreprocessor with the default ContextualPreprocessor
InitStats ==
    /\ pc = "batching"
    /\ requested = None
    /\ config = DefaultConfig
    /\ title = << >>
    /\ text = << >>
    /\ page_markers = << >>
    /\ RunIdle
    /\ CallIdle
    /\ BatchIdle
    /\ ValIdle
    /\ MoreIdle
    /\ pre_config = DefaultContextualConfig
    /\ pre_args = None
    /\ prefix = << >>
    /\ chunk = None
    /\ processed = << >>

NextStats == ProcessBatch \/ ResetStats \/ ReadStats \/ ChangeView

SpecStats == InitStats /\ [][NextStats]_vars

\* One call of validate_chunk, or of validate_chunks
InitVal ==
    /\ requested = None
    /\ config = DefaultConfig
    /\ title = << >>
    /\ text = << >>
    /\ page_markers = << >>
    /\ RunIdle
    /\ CallIdle
    /\ BatchIdle
    /\ pre_config = None
    /\ pre_args = None
    /\ prefix = << >>
    /\ processed = << >>
    /\ metrics = None
    /\ report = None
    /\ MoreIdle
    /\ \/ pc = "chunk_to_validate" /\ chunk \in { Some(c) : c \in ValChunks }
          /\ chunks = << >>
       \/ pc = "batch_to_validate" /\ chunk = None /\ chunks \in Batches

NextVal == ValidateChunk \/ ValidateChunks

SpecVal == InitVal /\ [][NextVal]_vars

\* Calls of a VRAMMonitor while the memory in use changes
InitVram ==
    /\ pc = "monitoring"
    /\ requested = None
    /\ config = DefaultConfig
    /\ title = << >>
    /\ text = << >>
    /\ page_markers = << >>
    /\ RunIdle
    /\ CallIdle
    /\ BatchIdle
    /\ PreIdle
    /\ ValIdle
    /\ EmbedIdle
    /\ StatsIdle
    /\ ConsumerIdle
    /\ monitor \in { Some(m) : m \in Monitors }
    /\ gpu \in { Some(g) : g \in Gpus }
    /\ health = None
    /\ answer = None
    /\ notified = << >>

NextVram == CheckHealth \/ IsHealthy \/ GetUserFriendlyError \/ GpuChanges

SpecVram == InitVram /\ [][NextVram]_vars

\* The construction of a chunker and the start of its first run
InitConstruct ==
    /\ pc = "new"
    /\ requested \in Requests
    /\ config = None
    /\ title \in Titles
    /\ text = WORD8
    /\ page_markers = << >>
    /\ RunIdle
    /\ CallIdle
    /\ BatchIdle
    /\ PreIdle
    /\ ValIdle
    /\ MoreIdle

NextConstruct == Construct \/ StartRun

SpecConstruct == InitConstruct /\ [][NextConstruct]_vars
\* ------------------------------------------------------------------------
\* Properties
\* ------------------------------------------------------------------------

\* The restored text of the segment at place k of raw_chunks
restored_at(k) == restore_content(raw_chunks[k], protected_blocks)

\* The restored text the k-th yielded chunk was made from
restored_of(k) == restored_at(emitted_from[k])

\* The splitter of the run has returned
SplitReturned == pc \in {"loop", "yielded", "closed", "done"}

chars(s) == { s[k] : k \in 1..Len(s) }

\* What the claims call a valid configuration
ValidConfig(cfg) ==
    /\ cfg.chunk_size >= 1
    /\ cfg.chunk_overlap >= 0
    /\ cfg.chunk_overlap < cfg.chunk_size
    /\ cfg.min_chunk_size >= 0

WhitespaceOnly(s) == chars(s) \subseteq Whitespace

\* C1: for every document and every configuration with chunk_size >= 1 and
\* 0 <= chunk_overlap < chunk_size, chunk_content terminates: the run never
\* stays in a splitter whose hard-split loop does not exit.
C1_ChunkContentTerminates == ValidConfig(config) => pc # "hung"

\* seg with every whole placeholder of the block map taken out
RECURSIVE without_placeholders(_, _)
without_placeholders(seg, blocks) ==
    IF blocks = << >> THEN seg
    ELSE without_placeholders(
             ReplaceAll(seg, Head(blocks).placeholder, << " " >>), Tail(blocks))

\* No part of a placeholder is left in seg once the whole placeholders are
\* taken out; the documents hold no underscore of their own.
PlaceholdersWhole(seg, blocks) == "_" \notin chars(without_placeholders(seg, blocks))

\* C2: in every segment the Boundary Splitter returns for the protected text
\* each placeholder occurs whole or not at all.
C2_PlaceholdersNeverSplit ==
    SplitReturned =>
        \A k \in 1..Len(raw_chunks) : PlaceholdersWhole(raw_chunks[k], protected_blocks)

\* C3: the emitted chunks cover the whole text and no protected span is
\* fragmented; stated for its least case: when the run ends and no segment
\* was dropped for its size, every fenced code block of the document is
\* found whole in the content of some emitted chunk.
C3_ProtectedSpansCovered ==
    (pc = "done" /\ Len(emitted) = Len(raw_chunks)) =>
        \A b \in 1..Len(code_matches(text, 0)) :
            \E k \in 1..Len(emitted) :
                Contains(emitted[k].content, code_matches(text, 0)[b])

\* The length of the longest protected block, 0 when there is none
RECURSIVE longest_block(_)
longest_block(blocks) ==
    IF blocks = << >> THEN 0
    ELSE Max(Len(Head(blocks).original), longest_block(Tail(blocks)))

\* The combined length of the blocks _restore_content puts into text, one
\* for every placeholder occurrence it replaces
RECURSIVE substituted_len(_, _)
substituted_len(s, blocks) ==
    IF blocks = << >> THEN 0
    ELSE Count(s, Head(blocks).placeholder) * Len(Head(blocks).original)
         + substituted_len(
               ReplaceAll(s, Head(blocks).placeholder, Head(blocks).original),
               Tail(blocks))

\* C4 as stated: the restored content of an emitted chunk is at most
\* chunk_size_chars plus the length of one protected block.
C4_OverflowAtMostOneBlock ==
    \A k \in 1..Len(emitted) :
        Len(restored_of(k)) <= chunk_size_chars(config) + longest_block(protected_blocks)

\* C4 as amended: the restored content of an emitted chunk is at most
\* chunk_size_chars plus the combined length of the protected blocks that
\* were substituted into it.
C4_OverflowAtMostSubstitutedBlocks ==
    \A k \in 1..Len(emitted) :
        Len(restored_of(k)) <=
            chunk_size_chars(config)
            + substituted_len(raw_chunks[emitted_from[k]], protected_blocks)

\* C4's case: an emitted chunk that holds two placeholders and overflows the
\* budget by more than the longest block.
C4_Witness ==
    \E k \in 1..Len(emitted) :
        /\ Count(raw_chunks[emitted_from[k]], TABLE_PREFIX) >= 2
        /\ Len(restored_of(k)) >
               chunk_size_chars(config) + longest_block(protected_blocks)

\* C5: for a text with balanced code fences, restoring what protect returns
\* gives the text back.
C5_RoundTrip ==
    (pc = "restore" /\ Count(text, FENCE) % 2 = 0) => restored_text = text

\* ceil(a / b) for a >= 0, b > 0
CeilDiv(a, b) == (a + b - 1) \div b

\* C6: hard-splitting a text of length L without spaces, with chunk size C
\* and overlap O, 0 < O < C, returns ceil(L / (C - O)) segments of at most C
\* characters, each pair of neighbours but the last sharing exactly O.
C6_ForceSplitSegments ==
    (pc = "force_split" /\ " " \notin chars(text) /\ arg_overlap > 0) =>
        /\ ~split_result.div
        /\ Len(split_result.segs) = CeilDiv(Len(text), arg_size - arg_overlap)
        /\ \A k \in 1..Len(split_result.segs) : Len(split_result.segs[k]) <= arg_size
        /\ \A k \in 1..(Len(split_result.segs) - 2) :
               Slice(split_result.segs[k], -arg_overlap, Len(split_result.segs[k]))
                   = Slice(split_result.segs[k + 1], 0, arg_overlap)

\* C7: a chunker is never constructed, and chunk_content never started, with
\* an invalid size or overlap.
C7_InvalidConfigRejected ==
    (pc \in {"constructed", "start"} /\ requested # None) => ValidConfig(config)

\* The running header value after the segments 1..k of raw_chunks, every
\* segment the splitter produced counted
RECURSIVE running_after(_, _)
running_after(k, level) ==
    IF k = 0 THEN None
    ELSE running(running_after(k - 1, level), header_search(restored_at(k), 0, level))

\* C8: every segment that holds a header updates the running value for all
\* later chunks, so each emitted chunk carries the chapter and the section
\* that run up to its own segment.
C8_RunningContextCarried ==
    \A k \in 1..Len(emitted) :
        /\ emitted[k].chapter =
               Or(running_after(emitted_from[k], 1),
                  header_search(restored_of(k), 0, 1))
        /\ emitted[k].section =
               Or(running_after(emitted_from[k], 2),
                  header_search(restored_of(k), 0, 2))

\* C9: when the run ends, every command sequence of the document
\* (COMMAND_PATTERN) lies whole in one of the segments the chunks are made
\* from.
C9_CommandsNeverSplit ==
    pc = "done" =>
        \A m \in 1..Len(command_matches(text, 0)) :
            \E k \in 1..Len(raw_chunks) :
                Contains(restored_at(k), command_matches(text, 0)[m])

\* C10: for an empty or whitespace-only text and a valid configuration with
\* a positive minimum size, chunk_content completes and yields no chunk.
\* The configuration is the one the run was started with.
C10_WhitespaceYieldsNothing ==
    (/\ ~reconfigured
     /\ WhitespaceOnly(text)
     /\ ValidConfig(config)
     /\ config.min_chunk_size >= 1) =>
        /\ pc # "hung"
        /\ emitted = << >>

\* The places of raw_chunks the for loop has been through, the place of a
\* chunk in the consumer's hands included
Visited ==
    IF pc \in {"yielded", "closed"} THEN 1..pos
    ELSE IF SplitReturned THEN 1..(pos - 1) ELSE {}

\* The places of raw_chunks a chunk was yielded for
YieldedPlaces == { emitted_from[k] : k \in 1..Len(emitted) }

\* C11: a restored segment is yielded if and only if its trimmed length is
\* at least min_chunk_size_chars, and so, for every configuration, the
\* content of every emitted chunk is trimmed, non-empty and at least
\* min_chunk_size_chars long.  The configuration is the one the run was
\* started with.
C11_EmittedIffLongEnough ==
    ~reconfigured =>
    /\ \A k \in Visited :
           k \in YieldedPlaces <=>
               Len(Strip(restored_at(k))) >= min_chunk_size_chars(config)
    /\ \A k \in 1..Len(emitted) :
           /\ emitted[k].content = Strip(emitted[k].content)
           /\ emitted[k].content # << >>
           /\ Len(emitted[k].content) >= min_chunk_size_chars(config)

\* C12: the chunk_index values of the chunks of one run are 0, 1, 2, ... in
\* emission order, whatever segments were dropped in between.
C12_ChunkIndexContiguous ==
    \A k \in 1..Len(emitted) : emitted[k].chunk_index = k - 1

\* C12's case: a finished run that yielded a chunk, dropped the segment
\* after it and yielded a later one.
C12_Witness ==
    /\ pc = "done"
    /\ \E k \in 1..(Len(emitted) - 1) : emitted_from[k + 1] > emitted_from[k] + 1

\* The chunk_content calls made so far that returned, the last one included
Returns ==
    finished \o (IF pc = "done"
                 THEN << [content |-> content_of_run, chunks |-> emitted] >>
                 ELSE << >>)

\* The calls made so far, with what each has yielded
Calls == Append(finished, [content |-> content_of_run, chunks |-> emitted])

\* The chunk_id values yielded in the run, call after call
RECURSIVE ids_of(_)
ids_of(calls) ==
    IF calls = << >> THEN << >>
    ELSE [k \in 1..Len(Head(calls).chunks) |-> Head(calls).chunks[k].chunk_id]
         \o ids_of(Tail(calls))

DistinctTitles(calls) ==
    \A i, j \in 1..Len(calls) :
        i # j => calls[i].content.title # calls[j].content.title

\* C13: across the chunks emitted in one run over documents with distinct
\* titles, the chunk_id values are pairwise distinct.
C13_ChunkIdsDistinct ==
    DistinctTitles(Calls) =>
        \A a, b \in 1..Len(ids_of(Calls)) :
            a # b => ids_of(Calls)[a] # ids_of(Calls)[b]

\* C14: two chunk_content calls of one chunker on the same content return
\* the same chunk sequence, whatever was processed in between.
C14_Deterministic ==
    \A i, j \in 1..Len(Returns) :
        Returns[i].content = Returns[j].content =>
            Returns[i].chunks = Returns[j].chunks

\* C14's case: the third call is on the content of the first, the call in
\* between was on another document and set a chapter, and the first call
\* yielded a chunk without one.
C14_Witness ==
    /\ Len(Returns) = 3
    /\ Returns[1].content = Returns[3].content
    /\ Returns[2].content # Returns[1].content
    /\ \E k \in 1..Len(Returns[2].chunks) : Returns[2].chunks[k].chapter # None
    /\ \E k \in 1..Len(Returns[1].chunks) : Returns[1].chunks[k].chapter = None

\* The result of the build_contextual_prefix call without its last line,
\* newline, separator, newline
header_part == Slice(prefix, 0, Len(prefix) - Len(pre_config.separator) - 2)

\* The line of a field that is included, with its newline
field_line(included, label, value) ==
    IF included THEN label \o value[1] \o NL ELSE << >>

\* The lines of the fields whose flag is enabled and whose value is present
\* (not None, not empty, not 0), in the order source, chapter, section, page
expected_header ==
    field_line(pre_config.include_source /\ Truthy(pre_args.source),
               get_source_label(pre_args.source_type) \o COLON, pre_args.source)
    \o field_line(pre_config.include_chapter /\ Truthy(pre_args.chapter),
                  CHAPTER_LABEL, pre_args.chapter)
    \o field_line(pre_config.include_section /\ Truthy(pre_args.section),
                  SECTION_LABEL, pre_args.section)
    \o (IF pre_config.include_page /\ TruthyInt(pre_args.page)
        THEN PAGE_LABEL \o IntToStr(pre_args.page[1]) \o NL ELSE << >>)

\* The lines and the separator line, or the empty string without a line
expected_prefix ==
    IF expected_header = << >> THEN << >>
    ELSE expected_header \o pre_config.separator \o NL

\* C15: the header part of a non-empty build_contextual_prefix result is at
\* most max_context_length characters long, for every max_context_length;
\* when the assembled header was longer it ends with the ellipsis; the
\* result ends with newline, separator, newline.
C15_HeaderBounded ==
    (pc = "prefix_built" /\ prefix # << >>) =>
        /\ Len(header_part) <= pre_config.max_context_length
        /\ (Len(expected_header) - 1 > pre_config.max_context_length
               => EndsWith(header_part, ELLIPSIS))
        /\ EndsWith(prefix, NL \o pre_config.separator \o NL)

\* The example of the contextual prefix: source, chapter and section of a
\* book under the default options
EXAMPLE_PREFIX ==
    << "S", "o", "u", "r", "c", "e", ":", " ", "W", "i", "n", "d", "o", "w", "s", " ", "I", "n", "t", "e", "r", "n", "a", "l", "s", "\n", "C", "h", "a", "p", "t", "e", "r", ":", " ", "M", "e", "m", "o", "r", "y", " ", "M", "a", "n", "a", "g", "e", "m", "e", "n", "t", "\n", "S", "e", "c", "t", "i", "o", "n", ":", " ", "V", "A", "D", " ", "T", "r", "e", "e", "s", "\n", "-", "-", "-", "\n" >>

ExampleHolds ==
    (/\ pre_config = DefaultContextualConfig
     /\ pre_args.source = Some(WINDOWS_INTERNALS)
     /\ pre_args.chapter = Some(MEMORY_MANAGEMENT)
     /\ pre_args.section = Some(VAD_TREES)
     /\ pre_args.source_type = "book")
        => prefix = EXAMPLE_PREFIX

\* C16 as stated: the result is one line per field whose flag is enabled
\* and whose value is present, in the order source label, Chapter, Section,
\* Page, then the separator line, and empty without a field; the example
\* gives exactly its four lines.
C16_OneLinePerField ==
    pc = "prefix_built" => (prefix = expected_prefix /\ ExampleHolds)

\* C16 as amended: the same, for the calls whose lines together are not
\* longer than max_context_length.
C16_OneLinePerFieldWhenFits ==
    (pc = "prefix_built"
     /\ Len(expected_header) - 1 <= pre_config.max_context_length)
        => (prefix = expected_prefix /\ ExampleHolds)

\* C16's case: a call with all four fields included, and the example.
C16_Witness ==
    /\ pc = "prefix_built"
    /\ pre_config.include_page
    /\ pre_config.max_context_length = DEFAULT_MAX_CONTEXT_LENGTH
    /\ Count(prefix, NL) = 5
    /\ pre_args.source_type = "org"

\* C20: preprocess_chunk leaves the Chunk it is given as it is; for a chunk
\* with an empty prefix it returns a Chunk equal in every field but
\* contextual_prefix, which is the computed prefix; a chunk with a prefix
\* is returned unchanged; a second application returns what the first did.
C20_PreprocessFrame ==
    /\ pc \in {"preprocessed", "preprocessed_twice"} =>
           LET c == chunk[1]
               r == processed[1]
           IN  /\ c \in PreChunks
               /\ IF c.contextual_prefix = << >>
                  THEN /\ r.contextual_prefix =
                             ContextualPreprocessor_build_contextual_prefix(
                                 pre_config, Some(c.book_title), c.chapter,
                                 c.section, c.page, c.source_type)
                       /\ [r EXCEPT !.contextual_prefix = << >>] = c
                  ELSE r = c
    /\ pc = "preprocessed_twice" => processed[2] = processed[1]

\* C20's case: a chunk without a prefix was given one, and the result was
\* preprocessed again.
C20_Witness ==
    /\ pc = "preprocessed_twice"
    /\ chunk[1].contextual_prefix = << >>
    /\ processed[1].contextual_prefix # << >>

\* The float literal 0.7
FLOAT_0_7 == << 3355440, 3355443, 179 >>

\* C17: validate_chunk flags has_split_code_block exactly for the chunks
\* whose content holds an odd number of code fences, and every flagged chunk
\* has a quality score of at most 0.7.
C17_OddFencesFlagged ==
    pc = "chunk_validated" =>
        /\ metrics[1].has_split_code_block
               <=> Count(chunk[1].content, FENCE) % 2 = 1
        /\ metrics[1].has_split_code_block
               => float_ge(FLOAT_0_7, metrics[1].quality_score)

\* C17's case: a chunk with one fence and no other flag, scored 0.7.
C17_Witness ==
    /\ pc = "chunk_validated"
    /\ Count(chunk[1].content, FENCE) = 1
    /\ metrics[1].has_split_code_block
    /\ metrics[1].quality_score = FLOAT_0_7

\* The flags a ChunkQualityMetrics raises, each with its weight in tenths
raised(m) ==
    (IF ~m.is_complete_sentence THEN << 1 >> ELSE << >>)
    \o (IF m.has_split_code_block THEN << 3 >> ELSE << >>)
    \o (IF m.has_split_table THEN << 2 >> ELSE << >>)
    \o (IF m.has_garbage_chars THEN << 2 >> ELSE << >>)

RECURSIVE SumSeq(_)
SumSeq(q) == IF q = << >> THEN 0 ELSE Head(q) + SumSeq(Tail(q))

\* The score of a ChunkQualityMetrics in tenths, by the weights of its flags
tenths(m) == Max(0, 10 - SumSeq(raised(m)))

\* A float is within 2^-52 of a number of tenths: ten times its units are
\* within 160 units of the tenths times 2^56.
NearTenths(v, t) ==
    LET ten == float_digits(10 * v[1], 10 * v[2], 10 * v[3])
        goal == << 0, 0, 256 * t >>
        gap == IF float_ge(ten, goal)
               THEN float_digits(ten[1] - goal[1], ten[2] - goal[2], ten[3] - goal[3])
               ELSE float_digits(goal[1] - ten[1], goal[2] - ten[2], goal[3] - ten[3])
    IN  gap[3] = 0 /\ gap[2] = 0 /\ gap[1] <= 160

\* 1.0 less the weights of the raised flags, one after the other
score_of_flags(m) ==
    LET s1 == IF ~m.is_complete_sentence THEN float_sub(FLOAT_1_0, FLOAT_0_1)
              ELSE FLOAT_1_0
        s2 == IF m.has_split_code_block THEN float_sub(s1, FLOAT_0_3) ELSE s1
        s3 == IF m.has_split_table THEN float_sub(s2, FLOAT_0_2) ELSE s2
        s4 == IF m.has_garbage_chars THEN float_sub(s3, FLOAT_0_2) ELSE s3
    IN  float_max(FLOAT_0_0, s4)

\* C18: the quality score is 1.0 less the weights of the flags raised
\* (truncation 0.1, split code 0.3, split table 0.2, garbage 0.2), floored
\* at 0.0: it is the double these subtractions give and lies within 2^-52 of
\* the decimal figure; it is in [0.0, 1.0], it is 1.0 exactly when there is
\* no issue, and there are as many issue descriptions as raised flags.
C18_ScoreFromFlags ==
    pc = "chunk_validated" =>
        LET m == metrics[1]
        IN  /\ m.quality_score = score_of_flags(m)
            /\ NearTenths(m.quality_score, tenths(m))
            /\ float_ge(m.quality_score, FLOAT_0_0)
            /\ float_ge(FLOAT_1_0, m.quality_score)
            /\ m.quality_score = FLOAT_1_0 <=> m.issues = << >>
            /\ Len(m.issues) = Len(raised(m))

\* C18's case: a chunk that raises all four flags.
C18_Witness ==
    /\ pc = "chunk_validated"
    /\ Len(metrics[1].issues) = 4
    /\ tenths(metrics[1]) = 2

\* The places of the batch whose chunk has an issue, in input order
RECURSIVE with_issues(_)
with_issues(k) ==
    IF k = 0 THEN << >>
    ELSE with_issues(k - 1)
         \o (IF validate_chunk(chunks[k]).issues # << >> THEN << k >> ELSE << >>)

\* The scores of the chunks of the batch together, in tenths
RECURSIVE tenths_upto(_)
tenths_upto(k) ==
    IF k = 0 THEN 0 ELSE tenths_upto(k - 1) + tenths(validate_chunk(chunks[k]))

\* C19: validate_chunks reports the batch size, the number of chunks with an
\* issue (uncapped), the first 20 of them in input order, and passed exactly
\* when the mean of the scores is at least 0.9.
C19_BatchReport ==
    pc = "batch_validated" =>
        LET r == report[1]
            shown == Slice(with_issues(Len(chunks)), 0, 20)
        IN  /\ r.total_chunks = Len(chunks)
            /\ r.chunks_with_issues = Len(with_issues(Len(chunks)))
            /\ Len(r.issues) = Len(shown)
            /\ \A k \in 1..Len(shown) : r.issues[k].chunk_id = chunks[shown[k]].chunk_id
            /\ r.passed <=> (Len(chunks) > 0
                             /\ tenths_upto(Len(chunks)) >= 9 * Len(chunks))

\* C21: get_text_for_embedding gives the stored prefix and the content when
\* the stored prefix is not empty, else the prefix built from the chunk's
\* own fields and the content; the texts of a chunk and of what
\* preprocess_chunk makes of it are the same.
C21_EmbeddingText ==
    pc = "embedded" =>
        LET c == chunk[1]
        IN  /\ embedding[1] =
                   (IF c.contextual_prefix # << >> THEN c.contextual_prefix
                    ELSE prefix_of_chunk(pre_config, c))
                   \o c.content
            /\ embedding[1] = embedding[2]

\* C21's case: a chunk without a stored prefix whose fields give one, so
\* that preprocess_chunk stored a prefix the chunk did not have.
C21_Witness ==
    /\ pc = "embedded"
    /\ chunk[1].contextual_prefix = << >>
    /\ processed[1].contextual_prefix # << >>
    /\ embedding[1] = processed[1].contextual_prefix \o chunk[1].content

\* Offset i of s is the start of a line
LineStart(s, i) == i = 0 \/ s[i] = "\n"

\* No line of s starts with a hash sign
NoHeaderLines(s) == \A i \in 0..(Len(s) - 1) : LineStart(s, i) => s[i + 1] # "#"

\* Some line of s starts with the label
HasLine(s, label) == \E i \in 0..(Len(s) - 1) : LineStart(s, i) /\ StartsAt(s, i, label)

\* C22: the chunks of a document without any header line have chapter None
\* and section None, and neither their stored prefix nor the prefix built
\* from their fields has a Chapter or a Section line.
C22_NoHeadersNoLabels ==
    NoHeaderLines(text) =>
        \A k \in 1..Len(emitted) :
            /\ emitted[k].chapter = None
            /\ emitted[k].section = None
            /\ ~HasLine(emitted[k].contextual_prefix, CHAPTER_LABEL)
            /\ ~HasLine(emitted[k].contextual_prefix, SECTION_LABEL)
            /\ ~HasLine(prefix_of_chunk(DefaultContextualConfig, emitted[k]), CHAPTER_LABEL)
            /\ ~HasLine(prefix_of_chunk(DefaultContextualConfig, emitted[k]), SECTION_LABEL)

\* The status the thresholds give for what NVML answers: unavailable when
\* usage or total cannot be read, else critical from the critical threshold
\* on, else warning from the warning threshold on, else ok
expected_status ==
    LET m == monitor[1]
        g == gpu[1]
    IN  IF ~m.initialized \/ g.used = None \/ g.total = None THEN "unavailable"
        ELSE IF g.used[1] >= m.CRITICAL_THRESHOLD_GB THEN "critical"
        ELSE IF g.used[1] >= m.WARNING_THRESHOLD_GB THEN "warning"
        ELSE "ok"

\* C23: check_health reports the expected status; is_healthy returns True
\* exactly when that status is ok; get_user_friendly_error returns a
\* non-empty message exactly when it is critical or warning.
C23_StatusByThresholds ==
    [][/\ CheckHealth =>
            /\ answer'[1].result.raised = ""
            /\ answer'[1].result.value[1].status = expected_status
       /\ IsHealthy =>
            /\ answer'[1].result.raised = ""
            /\ answer'[1].result.value[1] = (expected_status = "ok")
       /\ GetUserFriendlyError =>
            /\ answer'[1].result.raised = ""
            /\ answer'[1].result.value[1] # << >>
                   <=> expected_status \in {"critical", "warning"}]_vars

\* The lengths of the segments together
RECURSIVE total_len(_)
total_len(segs) == IF segs = << >> THEN 0 ELSE Len(Head(segs)) + total_len(Tail(segs))

\* C24: every segment a returning _recursive_split call gives is at most
\* chunk_size characters long, whatever the overlap.
C24_SegmentsWithinBudget ==
    (pc = "recursive_split" /\ ~split_result.div) =>
        \A k \in 1..Len(split_result.segs) : Len(split_result.segs[k]) <= arg_size

\* C24's case: a call with overlap has returned three segments or more that
\* hold more characters than the text, one of them chunk_size long.
C24_Witness ==
    /\ pc = "recursive_split"
    /\ ~split_result.div
    /\ arg_overlap > 0
    /\ Len(split_result.segs) >= 3
    /\ total_len(split_result.segs) > Len(text)
    /\ \E k \in 1..Len(split_result.segs) : Len(split_result.segs[k]) = arg_size

\* The places of the text the first k returned segments can reach when
\* each segment gives a part that repeats earlier text and then the part of
\* the text that follows: the repeated part is empty, or found in the
\* segment before (near), or found in the text reached so far (~near).
RECURSIVE reached(_, _)
reached(k, near) ==
    IF k = 0 THEN {0}
    ELSE LET seg == split_result.segs[k]
             repeats(p, o) ==
                 \/ p = 0
                 \/ /\ near
                    /\ k > 1
                    /\ Contains(split_result.segs[k - 1], Slice(seg, 0, p))
                 \/ /\ ~near
                    /\ Contains(Slice(text, 0, o), Slice(seg, 0, p))
         IN  { o + Len(seg) - p :
                   <<o, p>> \in { op \in reached(k - 1, near) \X (0..Len(seg)) :
                                     /\ StartsAt(text, op[1], Slice(seg, op[2], Len(seg)))
                                     /\ repeats(op[2], op[1]) } }

\* The text is the parts that follow, one of each segment, put together
Rebuilt(near) == Len(text) \in reached(Len(split_result.segs), near)

\* C25 as stated: with overlap 0 the segments put together are the text;
\* with overlap the text is one suffix of each segment put together, the
\* rest of each segment being text of the segment before it.
C25_NoCharacterLost ==
    (pc = "recursive_split" /\ ~split_result.div) =>
        IF arg_overlap = 0 THEN Concat(split_result.segs) = text ELSE Rebuilt(TRUE)

\* C25: with overlap 0 the segments put together are the text; with overlap
\* the text is one suffix of each segment put together, the rest of each
\* segment being text found in the part of the input that the earlier
\* segments have covered.
C25_NoCharacterLostCovered ==
    (pc = "recursive_split" /\ ~split_result.div) =>
        IF arg_overlap = 0 THEN Concat(split_result.segs) = text ELSE Rebuilt(FALSE)

\* C25's case: a call with overlap has returned segments whose repeated
\* parts are not all found in the segment before them.
C25_Witness ==
    /\ pc = "recursive_split"
    /\ ~split_result.div
    /\ arg_overlap > 0
    /\ Len(split_result.segs) >= 3
    /\ Rebuilt(FALSE)
    /\ ~Rebuilt(TRUE)

\* The offset in the text where the k-th piece of a returned _force_split
\* call without overlap starts
piece_start(k) == total_len(SubSeq(split_result.segs, 1, k - 1))

\* The cut at offset e falls inside a word: the characters on both sides of
\* it are not spaces
InsideWord(e) == text[e] # " " /\ text[e + 1] # " "

\* C26: every piece of _force_split but the last is chunk_size long, unless
\* its cut falls inside a word and a space lies strictly after its start,
\* in which case it ends at the nearest such space before the cut; no
\* piece is empty.
C26_CutAtSizeOrSpace ==
    (pc = "force_split" /\ ~split_result.div) =>
        /\ \A k \in 1..Len(split_result.segs) : split_result.segs[k] # << >>
        /\ \A k \in 1..(Len(split_result.segs) - 1) :
               LET start == piece_start(k)
                   cut == start + arg_size
                   last_space == RFind(text, " ", start, cut)
               IN  Len(split_result.segs[k]) =
                       IF InsideWord(cut) /\ last_space > start
                       THEN last_space - start
                       ELSE arg_size

\* The pipes of s that lie outside every fenced span: a span runs from a
\* fence to the nearest fence after it
RECURSIVE pipes_outside_code(_)
pipes_outside_code(s) ==
    LET p == Find(s, FENCE, 0)
        q == IF p = -1 THEN -1 ELSE Find(s, FENCE, p + 3)
    IN  IF q = -1 THEN Count(s, << "|" >>)
        ELSE Count(Slice(s, 0, p), << "|" >>)
             + pipes_outside_code(Slice(s, q + 3, Len(s)))

\* The fenced spans of s
RECURSIVE fenced_spans(_)
fenced_spans(s) ==
    LET p == Find(s, FENCE, 0)
        q == IF p = -1 THEN -1 ELSE Find(s, FENCE, p + 3)
    IN  IF q = -1 THEN 0 ELSE 1 + fenced_spans(Slice(s, q + 3, Len(s)))

\* The entries of the block map whose key starts with the prefix
entries_of(key_prefix) ==
    SelectSeq(protected_blocks, LAMBDA b : StartsAt(b.placeholder, 0, key_prefix))

\* The pipes held by the recorded tables
RECURSIVE pipes_in(_)
pipes_in(blocks) ==
    IF blocks = << >> THEN 0
    ELSE Count(Head(blocks).original, << "|" >>) + pipes_in(Tail(blocks))

\* C27: _protect_content records one entry per fenced span under keys that
\* are pairwise distinct, the code blocks before the tables; the recorded
\* tables hold no pipe of a fenced span; no complete fenced span is left in
\* the protected text.
C27_CodeBeforeTables ==
    pc = "protect" =>
        /\ Len(entries_of(CODE_PREFIX)) = fenced_spans(text)
        /\ Len(entries_of(CODE_PREFIX)) + Len(entries_of(TABLE_PREFIX))
               = Len(protected_blocks)
        /\ \A j, k \in 1..Len(protected_blocks) :
               j # k => protected_blocks[j].placeholder # protected_blocks[k].placeholder
        /\ \A j, k \in 1..Len(protected_blocks) :
               (StartsAt(protected_blocks[j].placeholder, 0, CODE_PREFIX)
                /\ StartsAt(protected_blocks[k].placeholder, 0, TABLE_PREFIX)) => j < k
        /\ pipes_in(entries_of(TABLE_PREFIX)) <= pipes_outside_code(text)
        /\ fenced_spans(protected_text) = 0

\* C27's case: a fenced span that holds a table row was protected as one
\* code block, and its row was not recorded as a table.
C27_Witness ==
    /\ pc = "protect"
    /\ text = FENCE \o ROW_LINE \o FENCE
    /\ Len(entries_of(CODE_PREFIX)) = 1
    /\ protected_blocks[1].original = text
    /\ Len(entries_of(TABLE_PREFIX)) = 0
    /\ protected_text = placeholder(CODE_PREFIX, 0)

\* C28: the prefix chunk_content stores on an emitted chunk is the prefix
\* ContextualPreprocessor.build_contextual_prefix computes, with the default
\* options, from the chunk's own book_title, chapter, section and
\* source_type.
C28_StoredPrefixIsBuilderPrefix ==
    \A k \in 1..Len(emitted) :
        emitted[k].contextual_prefix
            = ContextualPreprocessor_build_contextual_prefix(
                  DefaultContextualConfig, Some(emitted[k].book_title),
                  emitted[k].chapter, emitted[k].section, None,
                  emitted[k].source_type)

\* The prefix that names exactly the chapter and the section of a chunk's
\* fields: one line for each field that is not None
prefix_naming(c) ==
    SOURCE_LABEL \o c.book_title \o NL
    \o (IF c.chapter # None THEN CHAPTER_LABEL \o c.chapter[1] \o NL ELSE << >>)
    \o (IF c.section # None THEN SECTION_LABEL \o c.section[1] \o NL ELSE << >>)
    \o RULE \o NL

\* C29: within one run the labels are never cleared: after a chunk with a
\* chapter (section) that is not None every later chunk has one; a chunk
\* whose text holds a chapter header and no section header carries the
\* section of the chunk before it; each chunk's prefix names exactly the
\* chapter and the section of its fields.
C29_LabelsNeverCleared ==
    \A k \in 1..Len(emitted) :
        /\ \A j \in 1..(k - 1) :
               /\ emitted[j].chapter # None => emitted[k].chapter # None
               /\ emitted[j].section # None => emitted[k].section # None
        /\ (/\ k > 1
            /\ header_search(restored_of(k), 0, 1) # None
            /\ header_search(restored_of(k), 0, 2) = None
            /\ emitted[k - 1].section # None)
               => emitted[k].section = emitted[k - 1].section
        /\ emitted[k].contextual_prefix = prefix_naming(emitted[k])

\* The last call of the log
last_call == batch_calls'[Len(batch_calls')]

\* C30: total_processed is the sum of the two other counters and the number
\* of chunks handed to process_batch with update_stats=True since the last
\* reset; process_batch with update_stats=False leaves the counters as they
\* are; reset_stats sets the three counters to 0; a write to the dictionary
\* the stats property returned leaves the counters as they are, and that
\* dictionary holds the counters of the moment it was read.
C30_StatsAccount ==
    /\ [](pc = "batching" =>
            /\ stats.total_processed = stats.with_existing_prefix + stats.prefix_added
            /\ stats.total_processed = counted)
    /\ [][pc = "batching" =>
            /\ (batch_calls' # batch_calls /\ last_call.op = "process_batch"
                   /\ ~last_call.update_stats) => stats' = stats
            /\ (batch_calls' # batch_calls /\ last_call.op = "reset_stats")
                   => stats' = NEW_STATS
            /\ (batch_calls' = batch_calls /\ stats_view' # stats_view)
                   => stats' = stats
            /\ (batch_calls' = batch_calls /\ stats_view = None /\ stats_view' # None)
                   => stats_view'[1].items = stats
            /\ (batch_calls' # batch_calls /\ last_call.op = "process_batch"
                   /\ last_call.update_stats)
                   => stats'.total_processed = stats.total_processed + Len(batch_out')]_vars

\* C30's case: after a reset, one batch was counted with a chunk of each
\* kind and the next batch was processed without counting; the dictionary
\* the caller read before the batches was written to afterwards and differs
\* from the counters.
C30_Witness ==
    /\ pc = "batching"
    /\ Len(batch_calls) = 3
    /\ batch_calls[1].op = "reset_stats"
    /\ batch_calls[2].op = "process_batch" /\ batch_calls[2].update_stats
    /\ batch_calls[3].op = "process_batch" /\ ~batch_calls[3].update_stats
    /\ Len(batch_out) = 2
    /\ stats = [total_processed |-> 2, with_existing_prefix |-> 1, prefix_added |-> 1]
    /\ stats_view # None
    /\ stats_view[1].items
           = [total_processed |-> 7, with_existing_prefix |-> 0, prefix_added |-> 0]

====
